---- MODULE Spec2Model ----
(***************************************************************************)
(* A model of the query builder of the document-database client            *)
(* (src/abstract_document_query.go): the where-token state machine, the    *)
(* parameter map, paging, rendering to query text and the execution entry  *)
(* points.  A builder is a record q of the AbstractDocumentQuery fields;   *)
(* every method is an operator from a builder to a builder, composed the   *)
(* way the Go code composes its calls.  A Go panic is the field "panic":   *)
(* once it is set the remaining statements of the call are skipped, and    *)
(* the assignments made before it stay, as they do in Go.                  *)
(***************************************************************************)
EXTENDS Integers, Sequences, FiniteSets

\* ------------------------------------------------------------------ bounds
\* number of builder calls in one behaviour
MaxCalls == 3
\* largest explicit page size passed to take
MaxPage == 3
\* number of String() calls that may follow the MaxCalls calls
MaxRenders == 2
\* number of session calls in one behaviour
MaxLoads == 3
\* number of builder calls in one behaviour that chains predicates
MaxChain == 4
\* number of calls in one behaviour that uses the identity field name
MaxFieldCalls == 2
MaxListenerCalls == 4
MaxNotifications == 4
MaxCacheCalls == 1

\* ------------------------------------------------------------- input sets
FieldNames == {"name"}
ParamValues == {"v1", "v2"}
\* include paths, as sequences of characters
IncludePaths == {<<"a", ".", "b">>, <<"i", "t", "'", "s">>}

VARIABLES
    queryRaw,             \* string, "" when no raw query text was given
    defaultOperator,      \* "AND" | "OR"
    negate,               \* pending negation flag
    currentClauseDepth,   \* subclause depth counter
    queryParameters,      \* parameter map: name -> value
    isIntersect,
    isGroupBy,
    isInMoreLikeThis,
    pageSize,             \* <<>> for nil, <<n>> for a pointer to n
    start,
    disableCaching,
    declareToken,         \* <<>> for nil, <<text>> otherwise
    fromToken,
    loadTokens,
    selectTokens,
    whereTokens,
    groupByTokens,
    orderByTokens,
    includes,
    queryOperation,       \* <<>> for nil, <<op>> once created
    clazz,                \* whether the type of the results is known
    theWaitForNonStaleResults,
    timeout,              \* seconds to wait for non-stale results
    queryOperationsCreated, \* calls of NewQueryOperation
    pendingLazyOperations, \* the lazy operations the session holds, in order
    queryStats,            \* <<n>> once refreshed from a result of n documents
    afterQueryExecuted,    \* the results handed to the after-query listeners
    fieldNames,            \* the field names the caller of this behaviour uses
    beforeQueryExecutedCallback, \* listeners by handle, "nil" where one was removed
    afterQueryExecutedCallback,
    afterStreamExecutedCallback,
    invoked,               \* the listeners called so far, in the order of the calls
    generation,           \* the generation counter of the cache of the request executor
    onNext,               \* per subscription: the OnNext call it is delivering
    notified,             \* the numbers of notifications handed to OnNext so far
    transportCalls,       \* calls of RequestExecutor.ExecuteCommand
    documentsById,        \* the session's identity map: lower-case id -> document info
    includedDocumentsById, \* ids of the documents the session got as includes
    knownMissingIds,      \* lower-case ids the session knows to be deleted or missing
    numberOfRequests,     \* the session's request counter
    calls,                \* number of calls made on the builder
    maxCalls,             \* number of calls the behaviour may make on the builder
    last                  \* the last call: its name, inputs and outcome

vars == <<queryRaw, defaultOperator, negate, currentClauseDepth, queryParameters,
          isIntersect, isGroupBy, isInMoreLikeThis, pageSize, start, disableCaching,
          declareToken, fromToken, loadTokens, selectTokens, whereTokens,
          groupByTokens, orderByTokens, includes, queryOperation, clazz,
          theWaitForNonStaleResults, timeout, queryOperationsCreated,
          pendingLazyOperations, queryStats, afterQueryExecuted, transportCalls,
          documentsById, includedDocumentsById, knownMissingIds, numberOfRequests,
          fieldNames, beforeQueryExecutedCallback, afterQueryExecutedCallback,
          afterStreamExecutedCallback, invoked, generation, onNext, notified,
          calls, maxCalls, last>>

\* ----------------------------------------------------------------- helpers
Last(s) == s[Len(s)]

Digits == <<"0", "1", "2", "3", "4", "5", "6", "7", "8", "9">>

\* strconv.Itoa for n >= 0, as a sequence of characters
RECURSIVE Itoa(_)
Itoa(n) == IF n < 10 THEN <<Digits[n + 1]>>
           ELSE Itoa(n \div 10) \o <<Digits[(n % 10) + 1]>>

\* strings.TrimPrefix(name, "$"); a name is a sequence of characters
TrimPrefixDollar(name) ==
    IF Len(name) > 0 /\ Head(name) = "$" THEN Tail(name) ELSE name

\* m[k] = v on a Go map
MapPut(m, k, v) == [x \in (DOMAIN m) \cup {k} |-> IF x = k THEN v ELSE m[x]]

EmptyMap == [x \in {} |-> "v1"]

\* panicIf(cond, msg): the first panic of a call wins
panicIf(q, cond, msg) == IF cond /\ q.panic = "" THEN [q EXCEPT !.panic = msg] ELSE q

Panicked(q) == q.panic # ""


\* ------------------------------------------------------------------ tokens
\* whereOptions of a token created without options
DefaultOptions ==
    [exact |-> FALSE, searchOperator |-> "", fromParameterName |-> <<>>,
     toParameterName |-> <<>>, methodArgs |-> <<>>,
     boost |-> 0, fuzzy |-> 0, proximity |-> 0]

Tok(kind) ==
    [kind |-> kind, whereOperator |-> "", fieldName |-> "", parameterName |-> <<>>,
     options |-> DefaultOptions, whereTokens |-> <<>>]

\* the shared marker instances
trueTokenInstance == Tok("true")
openSubclauseTokenInstance == Tok("open")
closeSubclauseTokenInstance == Tok("close")
negateTokenInstance == Tok("negate")
intersectMarkerTokenInstance == Tok("intersect")
queryOperatorTokenAnd == [Tok("operator") EXCEPT !.whereOperator = "and"]
queryOperatorTokenOr == [Tok("operator") EXCEPT !.whereOperator = "or"]

createWhereTokenWithOptions(op, fieldName, parameterName, options) ==
    [Tok("where") EXCEPT !.whereOperator = op, !.fieldName = fieldName,
                         !.parameterName = parameterName, !.options = options]

createWhereToken(op, fieldName, parameterName) ==
    createWhereTokenWithOptions(op, fieldName, parameterName, DefaultOptions)

newMoreLikeThisToken == Tok("moreLikeThis")

NewWhereOptionsWithExact(exact) == [DefaultOptions EXCEPT !.exact = exact]
NewWhereOptionsWithOperator(operator) == [DefaultOptions EXCEPT !.searchOperator = operator]
NewWhereOptionsWithFromTo(exact, from, to) ==
    [DefaultOptions EXCEPT !.exact = exact, !.fromParameterName = from,
                           !.toParameterName = to]
NewWhereOptionsWithMethod(args, exact) ==
    [DefaultOptions EXCEPT !.exact = exact, !.methodArgs = args]

\* ------------------------------------------------------- values and fields
\* a compare-exchange method call used as a where value, and its one argument
CmpXchgValue == "cmpxchg(key)"
CmpXchgArg == "key"
WhereValues == {"v1", CmpXchgValue}

documentConventionsIdentityPropertyName == "ID"
IndexingFieldNameDocumentID == "id()"

\* queryFieldUtilEscapeIfNecessary: a name with a character outside
\* [A-Za-z0-9_.] is quoted; the names used here need no quotes
queryFieldUtilEscapeIfNecessary(fieldName) == fieldName

\* the builders modelled are bound to a session with conventions
ensureValidFieldName(q, fieldName, isNestedPath) ==
    IF isNestedPath \/ q.isGroupBy THEN queryFieldUtilEscapeIfNecessary(fieldName)
    ELSE IF fieldName = documentConventionsIdentityPropertyName
         THEN IndexingFieldNameDocumentID
         ELSE queryFieldUtilEscapeIfNecessary(fieldName)

\* a time.Duration used as a where value, and its length in nanoseconds
Durations == {"500ns"}
DurationNanoseconds == [d \in Durations |-> 500]

\* nil is the value "nil"; the conventions convert none of the values used
\* here, strings pass through, a time.Duration becomes the int64 of its ticks of
\* 100 nanoseconds, written here as its digit
transformValueWithRange(value, forRange) ==
    IF value = "nil" THEN "nil"
    ELSE IF value = "" THEN ""
    ELSE IF value \in Durations THEN Digits[(DurationNanoseconds[value] \div 100) + 1]
    ELSE value

transformValue(value) == transformValueWithRange(value, FALSE)

\* -------------------------------------------------------------- parameters
assertNoRawQuery(q) ==
    panicIf(q, q.queryRaw # "", "RawQuery was called, cannot modify this query")

\* the name is "p" followed by the size of the map; the name is left in q.ret
addQueryParameter(q, value) ==
    IF Panicked(q) THEN q
    ELSE LET parameterName == <<"p">> \o Itoa(Cardinality(DOMAIN q.queryParameters))
         IN [q EXCEPT !.queryParameters = MapPut(@, parameterName, value),
                      !.ret = parameterName]

\* addParameter without the TrimPrefix
addParameter_NoTrim(q, name0, value) ==
    IF Panicked(q) THEN q
    ELSE IF name0 \in DOMAIN q.queryParameters
         THEN panicIf(q, TRUE, "The parameter was already added")
         ELSE [q EXCEPT !.queryParameters = MapPut(@, name0, value)]

addParameter(q, name0, value) ==
    IF Panicked(q) THEN q
    ELSE LET name == TrimPrefixDollar(name0)
         IN IF name \in DOMAIN q.queryParameters
            THEN panicIf(q, TRUE, "The parameter was already added")
            ELSE [q EXCEPT !.queryParameters = MapPut(@, name, value)]

\* ------------------------------------------------- the current where tokens
\* getCurrentWhereTokensRef yields a pointer: to q.whereTokens ("top") or to
\* the token list of the moreLikeThis token that ends q.whereTokens ("mlt")
RefOf(q) == IF q.isInMoreLikeThis THEN "mlt" ELSE "top"

getCurrentWhereTokensRef(q) ==
    IF Panicked(q) \/ ~q.isInMoreLikeThis THEN q
    ELSE IF Len(q.whereTokens) = 0
         THEN panicIf(q, TRUE, "Cannot get moreLikeThisToken because there are no where token specified.")
         ELSE panicIf(q, Last(q.whereTokens).kind # "moreLikeThis",
                      "Last token is not moreLikeThisToken")

getCurrentWhereTokens(q) == getCurrentWhereTokensRef(q)

\* *tokensRef
Deref(q, ref) ==
    IF ref = "top" THEN q.whereTokens ELSE Last(q.whereTokens).whereTokens

\* *tokensRef = tokens
Assign(q, ref, tokens) ==
    IF ref = "top" THEN [q EXCEPT !.whereTokens = tokens]
    ELSE [q EXCEPT !.whereTokens[Len(q.whereTokens)].whereTokens = tokens]

\* the last where token of tokens, <<>> when there is none
RECURSIVE LastWhere(_)
LastWhere(tokens) ==
    IF Len(tokens) = 0 THEN <<>>
    ELSE IF Last(tokens).kind = "where" THEN <<Last(tokens)>>
         ELSE LastWhere(SubSeq(tokens, 1, Len(tokens) - 1))

\* appendOperatorIfNeeded that ignores the configured default operator
appendOperatorIfNeeded_AlwaysAnd(q, ref) ==
    IF Panicked(q) THEN q
    ELSE LET tokens == Deref(q, ref)
             q1 == assertNoRawQuery(q)
         IN IF Panicked(q1) \/ Len(tokens) = 0 THEN q1
            ELSE IF Last(tokens).kind \notin {"where", "close"} THEN q1
            ELSE Assign(q1, ref, Append(tokens, queryOperatorTokenAnd))

appendOperatorIfNeeded(q, ref) ==
    IF Panicked(q) THEN q
    ELSE LET tokens == Deref(q, ref)
             q1 == assertNoRawQuery(q)
             n == Len(tokens)
         IN IF Panicked(q1) \/ n = 0 THEN q1
            ELSE IF Last(tokens).kind \notin {"where", "close"} THEN q1
            ELSE LET lastWhere == LastWhere(tokens)
                     token == IF lastWhere # <<>> /\ lastWhere[1].options.searchOperator # ""
                              THEN queryOperatorTokenOr
                              ELSE IF q1.defaultOperator = "AND"
                                   THEN queryOperatorTokenAnd
                                   ELSE queryOperatorTokenOr
                 IN Assign(q1, ref, Append(tokens, token))

\* andAlso that appends after an operator token as well
andAlso_AfterOperator(q) ==
    IF Panicked(q) THEN q
    ELSE LET q1 == getCurrentWhereTokensRef(q)
             ref == RefOf(q)
         IN IF Panicked(q1) THEN q1
            ELSE LET tokens == Deref(q1, ref)
                 IN IF Len(tokens) = 0 THEN q1
                    ELSE Assign(q1, ref, Append(tokens, queryOperatorTokenAnd))

andAlso(q) ==
    IF Panicked(q) THEN q
    ELSE LET q1 == getCurrentWhereTokensRef(q)
             ref == RefOf(q)
         IN IF Panicked(q1) THEN q1
            ELSE LET tokens == Deref(q1, ref)
                 IN IF Len(tokens) = 0 THEN q1
                    ELSE IF Last(tokens).kind = "operator"
                         THEN panicIf(q1, TRUE, "Cannot add AND, previous token was already an operator token.")
                         ELSE Assign(q1, ref, Append(tokens, queryOperatorTokenAnd))

orElse(q) ==
    IF Panicked(q) THEN q
    ELSE LET q1 == getCurrentWhereTokensRef(q)
             ref == RefOf(q)
         IN IF Panicked(q1) THEN q1
            ELSE LET tokens == Deref(q1, ref)
                 IN IF Len(tokens) = 0 THEN q1
                    ELSE IF Last(tokens).kind = "operator"
                         THEN panicIf(q1, TRUE, "Cannot add OR, previous token was already an operator token.")
                         ELSE Assign(q1, ref, Append(tokens, queryOperatorTokenOr))

\* the where token that boost, fuzzy and proximity modify: the last token of the
\* current list, which must be a where token
lastWhereTokenOf(q) ==
    LET q1 == getCurrentWhereTokens(q)
    IN IF Panicked(q1) THEN q1
       ELSE LET tokens == Deref(q1, RefOf(q1))
            IN panicIf(q1, Len(tokens) = 0 \/ Last(tokens).kind # "where",
                       "Missing where clause")

\* whereToken.options is reached through the pointer held by the current list
setLastWhereOptions(q, options) ==
    LET ref == RefOf(q)
        tokens == Deref(q, ref)
    IN Assign(q, ref, [tokens EXCEPT ![Len(tokens)].options = options])

\* boost that changes the last token of the top-level list
boost_TopLevel(q, factor) ==
    IF Panicked(q) \/ factor = 1 \/ factor <= 0 \/ Len(q.whereTokens) = 0 THEN q
    ELSE [q EXCEPT !.whereTokens[Len(q.whereTokens)].options.boost = factor]

\* factor stands for the float64 of the same value
boost(q, factor) ==
    IF Panicked(q) \/ factor = 1 THEN q
    ELSE LET q1 == lastWhereTokenOf(q)
         IN IF Panicked(q1) THEN q1
            ELSE IF factor <= 0
                 THEN panicIf(q1, TRUE, "Boost factor must be a positive number")
                 ELSE setLastWhereOptions(q1,
                          [Last(Deref(q1, RefOf(q1))).options EXCEPT !.boost = factor])

\* distance stands for the float64 of the same value
fuzzy(q, distance) ==
    IF Panicked(q) THEN q
    ELSE LET q1 == lastWhereTokenOf(q)
         IN IF Panicked(q1) THEN q1
            ELSE IF distance < 0 \/ distance > 1
                 THEN panicIf(q1, TRUE, "Fuzzy distance must be between 0.0 and 1.0")
                 ELSE setLastWhereOptions(q1,
                          [Last(Deref(q1, RefOf(q1))).options EXCEPT !.fuzzy = distance])

proximity(q, distance) ==
    IF Panicked(q) THEN q
    ELSE LET q1 == lastWhereTokenOf(q)
         IN IF Panicked(q1) THEN q1
            ELSE IF distance < 1
                 THEN panicIf(q1, TRUE, "Proximity distance must be a positive number")
                 ELSE setLastWhereOptions(q1,
                          [Last(Deref(q1, RefOf(q1))).options EXCEPT !.proximity = distance])

RECURSIVE negateIfNeeded(_, _, _), whereExists(_, _), whereTrue(_)

\* tokens is read before the guard predicate is added; the guard and its AND
\* go through their own reference, and the assignment at the end stores the
\* list read at the start with the Negate marker appended
negateIfNeeded(q, ref, fieldName) ==
    IF Panicked(q) \/ ~q.negate THEN q
    ELSE LET q1 == [q EXCEPT !.negate = FALSE]
             tokens == Deref(q1, ref)
             n == Len(tokens)
             q2 == IF n = 0 \/ Last(tokens).kind = "open"
                   THEN andAlso(IF fieldName # "" THEN whereExists(q1, fieldName)
                                                   ELSE whereTrue(q1))
                   ELSE q1
         IN IF Panicked(q2) THEN q2
            ELSE Assign(q2, ref, Append(tokens, negateTokenInstance))

whereTrue(q) ==
    IF Panicked(q) THEN q
    ELSE LET q0 == getCurrentWhereTokensRef(q)
             ref == RefOf(q)
             q1 == appendOperatorIfNeeded(q0, ref)
             q2 == negateIfNeeded(q1, ref, "")
         IN IF Panicked(q2) THEN q2
            ELSE Assign(q2, ref, Append(Deref(q2, ref), trueTokenInstance))

whereExists(q, fieldName0) ==
    IF Panicked(q) THEN q
    ELSE LET fieldName == ensureValidFieldName(q, fieldName0, FALSE)
             q0 == getCurrentWhereTokensRef(q)
             ref == RefOf(q)
             q1 == appendOperatorIfNeeded(q0, ref)
             q2 == negateIfNeeded(q1, ref, fieldName)
         IN IF Panicked(q2) THEN q2
            ELSE Assign(q2, ref, Append(Deref(q2, ref),
                                        createWhereToken("exists", fieldName, <<>>)))


\* tokens is read before the operator and the Negate marker are added, and the
\* assignment at the end stores that earlier list with the new token appended
whereLucene(q, fieldName0, whereClause) ==
    IF Panicked(q) THEN q
    ELSE LET fieldName == ensureValidFieldName(q, fieldName0, FALSE)
             q0 == getCurrentWhereTokensRef(q)
             ref == RefOf(q)
         IN IF Panicked(q0) THEN q0
            ELSE LET tokens == Deref(q0, ref)
                     q1 == appendOperatorIfNeeded(q0, ref)
                     q2 == negateIfNeeded(q1, ref, fieldName)
                     q3 == addQueryParameter(q2, whereClause)
                 IN IF Panicked(q3) THEN q3
                    ELSE Assign(q3, ref,
                                Append(tokens, createWhereTokenWithOptions(
                                           "lucene", fieldName, q3.ret, DefaultOptions)))

openSubclause(q) ==
    IF Panicked(q) THEN q
    ELSE LET qd == [q EXCEPT !.currentClauseDepth = @ + 1]
             q0 == getCurrentWhereTokensRef(qd)
             ref == RefOf(qd)
             q1 == appendOperatorIfNeeded(q0, ref)
             q2 == negateIfNeeded(q1, ref, "")
         IN IF Panicked(q2) THEN q2
            ELSE Assign(q2, ref, Append(Deref(q2, ref), openSubclauseTokenInstance))

closeSubclause(q) ==
    IF Panicked(q) THEN q
    ELSE LET qd == [q EXCEPT !.currentClauseDepth = @ - 1]
             q0 == getCurrentWhereTokensRef(qd)
             ref == RefOf(qd)
         IN IF Panicked(q0) THEN q0
            ELSE Assign(q0, ref, Append(Deref(q0, ref), closeSubclauseTokenInstance))

\* the value is a *CmpXchg: its arguments are bound and the token carries the
\* method call; q.ret tells whether the token was added
ifValueIsMethod(q, op, fieldName, value, isExact, ref) ==
    IF Panicked(q) THEN q
    ELSE IF value = CmpXchgValue
         THEN LET q1 == addQueryParameter(q, CmpXchgArg)
                  opts == NewWhereOptionsWithMethod(<<q1.ret>>, isExact)
                  token == createWhereTokenWithOptions(op, fieldName, <<>>, opts)
              IN [Assign(q1, ref, Append(Deref(q1, ref), token)) EXCEPT !.ret = <<"true">>]
         ELSE [q EXCEPT !.ret = <<"false">>]

RECURSIVE whereEqualsWithParams(_, _, _, _, _), whereNotEqualsWithParams(_, _, _, _, _)

whereEqualsWithParams(q, fieldName0, value, isNestedPath, isExact) ==
    IF Panicked(q) THEN q
    ELSE IF q.negate
         THEN whereNotEqualsWithParams([q EXCEPT !.negate = FALSE],
                                       fieldName0, value, isNestedPath, isExact)
         ELSE LET fieldName == ensureValidFieldName(q, fieldName0, isNestedPath)
                  q0 == getCurrentWhereTokensRef(q)
                  ref == RefOf(q)
                  q1 == appendOperatorIfNeeded(q0, ref)
                  q2 == ifValueIsMethod(q1, "equals", fieldName, value, isExact, ref)
              IN IF Panicked(q2) \/ q2.ret = <<"true">> THEN q2
                 ELSE LET q3 == addQueryParameter(q2, transformValue(value))
                          whereToken == createWhereTokenWithOptions(
                                           "equals", fieldName, q3.ret,
                                           NewWhereOptionsWithExact(isExact))
                      IN Assign(q3, ref, Append(Deref(q3, ref), whereToken))

whereNotEqualsWithParams(q, fieldName0, value, isNestedPath, isExact) ==
    IF Panicked(q) THEN q
    ELSE IF q.negate
         THEN whereEqualsWithParams([q EXCEPT !.negate = FALSE],
                                    fieldName0, value, isNestedPath, isExact)
         ELSE LET transformToEqualValue == transformValue(value)
                  q0 == getCurrentWhereTokensRef(q)
                  ref == RefOf(q)
                  q1 == appendOperatorIfNeeded(q0, ref)
                  fieldName == ensureValidFieldName(q, fieldName0, isNestedPath)
                  q2 == ifValueIsMethod(q1, "notEquals", fieldName, value, isExact, ref)
              IN IF Panicked(q2) \/ q2.ret = <<"true">> THEN q2
                 ELSE LET q3 == addQueryParameter(q2, transformToEqualValue)
                          whereToken == createWhereTokenWithOptions(
                                           "notEquals", fieldName, q3.ret,
                                           NewWhereOptionsWithExact(isExact))
                      IN Assign(q3, ref, Append(Deref(q3, ref), whereToken))

whereEquals(q, fieldName, value) == whereEqualsWithParams(q, fieldName, value, FALSE, FALSE)

whereNotEquals(q, fieldName, value) ==
    whereNotEqualsWithParams(q, fieldName, value, FALSE, FALSE)

NegateNext(q) == IF Panicked(q) THEN q ELSE [q EXCEPT !.negate = ~@]

\* the values are bound as one collection parameter
whereIn(q, fieldName0, values) ==
    IF Panicked(q) THEN q
    ELSE LET fieldName == ensureValidFieldName(q, fieldName0, FALSE)
             q0 == getCurrentWhereTokensRef(q)
             ref == RefOf(q)
             q1 == appendOperatorIfNeeded(q0, ref)
             q2 == negateIfNeeded(q1, ref, fieldName)
             q3 == addQueryParameter(q2, values)
         IN IF Panicked(q3) THEN q3
            ELSE Assign(q3, ref, Append(Deref(q3, ref),
                                        createWhereToken("in", fieldName, q3.ret)))

\* whereBetween that decides the to-parameter from the end value
whereBetween_EndDecides(q, fieldName0, startValue, endValue) ==
    IF Panicked(q) THEN q
    ELSE LET fieldName == ensureValidFieldName(q, fieldName0, FALSE)
             q0 == getCurrentWhereTokensRef(q)
             ref == RefOf(q)
             q1 == appendOperatorIfNeeded(q0, ref)
             q2 == negateIfNeeded(q1, ref, fieldName)
             fromParam == IF startValue # "nil"
                          THEN transformValueWithRange(startValue, TRUE) ELSE "*"
             q3 == addQueryParameter(q2, fromParam)
             toParam == IF endValue # "nil"
                        THEN transformValueWithRange(endValue, TRUE) ELSE "NULL"
             q4 == addQueryParameter(q3, toParam)
         IN IF Panicked(q4) THEN q4
            ELSE Assign(q4, ref,
                        Append(Deref(q4, ref),
                               createWhereTokenWithOptions(
                                   "between", fieldName, <<>>,
                                   NewWhereOptionsWithFromTo(FALSE, q3.ret, q4.ret))))

\* the body the four scalar range comparisons share: the sentinel is bound for
\* a nil value, the transformed value otherwise
whereRange(q, op, fieldName, value, sentinel) ==
    LET q0 == getCurrentWhereTokensRef(q)
        ref == RefOf(q)
        q1 == appendOperatorIfNeeded(q0, ref)
        q2 == negateIfNeeded(q1, ref, fieldName)
        paramValue == IF value # "nil"
                      THEN transformValueWithRange(value, TRUE) ELSE sentinel
        q3 == addQueryParameter(q2, paramValue)
    IN IF Panicked(q3) THEN q3
       ELSE Assign(q3, ref,
                   Append(Deref(q3, ref),
                          createWhereTokenWithOptions(op, fieldName, q3.ret,
                                                      DefaultOptions)))

\* a range comparison that binds the sentinel for the empty string as well
whereGreaterThan_EmptyIsAbsent(q, fieldName0, value) ==
    IF Panicked(q) THEN q
    ELSE whereRange(q, "greaterThan", ensureValidFieldName(q, fieldName0, FALSE),
                    IF value = "" THEN "nil" ELSE value, "*")

whereGreaterThan(q, fieldName0, value) ==
    IF Panicked(q) THEN q
    ELSE whereRange(q, "greaterThan", ensureValidFieldName(q, fieldName0, FALSE),
                    value, "*")

whereGreaterThanOrEqual(q, fieldName0, value) ==
    IF Panicked(q) THEN q
    ELSE whereRange(q, "greaterThanOrEqual", ensureValidFieldName(q, fieldName0, FALSE),
                    value, "*")

whereLessThan(q, fieldName0, value) ==
    IF Panicked(q) THEN q
    ELSE whereRange(q, "lessThan", ensureValidFieldName(q, fieldName0, FALSE),
                    value, "NULL")

\* the field name is used as it is given
whereLessThanOrEqual(q, fieldName, value) ==
    IF Panicked(q) THEN q
    ELSE whereRange(q, "lessThanOrEqual", fieldName, value, "NULL")

\* the field name is used as it is given
whereRegex(q, fieldName, pattern) ==
    IF Panicked(q) THEN q
    ELSE LET q0 == getCurrentWhereTokensRef(q)
             ref == RefOf(q)
             q1 == appendOperatorIfNeeded(q0, ref)
             q2 == negateIfNeeded(q1, ref, fieldName)
             q3 == addQueryParameter(q2, transformValue(pattern))
         IN IF Panicked(q3) THEN q3
            ELSE Assign(q3, ref, Append(Deref(q3, ref),
                                        createWhereToken("regex", fieldName, q3.ret)))

\* a nil bound is the value "nil"
whereBetween(q, fieldName0, startValue, endValue) ==
    IF Panicked(q) THEN q
    ELSE LET fieldName == ensureValidFieldName(q, fieldName0, FALSE)
             q0 == getCurrentWhereTokensRef(q)
             ref == RefOf(q)
             q1 == appendOperatorIfNeeded(q0, ref)
             q2 == negateIfNeeded(q1, ref, fieldName)
             fromParam == IF startValue # "nil"
                          THEN transformValueWithRange(startValue, TRUE) ELSE "*"
             q3 == addQueryParameter(q2, fromParam)
             toParam == IF startValue # "nil"
                        THEN transformValueWithRange(endValue, TRUE) ELSE "NULL"
             q4 == addQueryParameter(q3, toParam)
         IN IF Panicked(q4) THEN q4
            ELSE Assign(q4, ref,
                        Append(Deref(q4, ref),
                               createWhereTokenWithOptions(
                                   "between", fieldName, <<>>,
                                   NewWhereOptionsWithFromTo(FALSE, q3.ret, q4.ret))))

searchWithOperator(q, fieldName0, searchTerms, operator) ==
    IF Panicked(q) THEN q
    ELSE LET q0 == getCurrentWhereTokensRef(q)
             ref == RefOf(q)
             q1 == appendOperatorIfNeeded(q0, ref)
             fieldName == ensureValidFieldName(q, fieldName0, FALSE)
             q2 == negateIfNeeded(q1, ref, fieldName)
             q3 == addQueryParameter(q2, searchTerms)
         IN IF Panicked(q3) THEN q3
            ELSE Assign(q3, ref,
                        Append(Deref(q3, ref),
                               createWhereTokenWithOptions(
                                   "search", fieldName, q3.ret,
                                   NewWhereOptionsWithOperator(operator))))

search(q, fieldName, searchTerms) == searchWithOperator(q, fieldName, searchTerms, "or")

intersect(q) ==
    IF Panicked(q) THEN q
    ELSE LET q0 == getCurrentWhereTokensRef(q)
             ref == RefOf(q)
         IN IF Panicked(q0) THEN q0
            ELSE LET tokens == Deref(q0, ref)
                 IN IF Len(tokens) > 0 /\ Last(tokens).kind \in {"where", "close"}
                    THEN Assign([q0 EXCEPT !.isIntersect = TRUE], ref,
                                Append(tokens, intersectMarkerTokenInstance))
                    ELSE panicIf(q0, TRUE, "Cannot add INTERSECT at this point.")

\* the operator goes to the top-level list, whatever the current scope is
moreLikeThis(q) ==
    IF Panicked(q) THEN q
    ELSE LET q1 == appendOperatorIfNeeded(q, "top")
         IN IF Panicked(q1) THEN q1
            ELSE [q1 EXCEPT !.whereTokens = Append(@, newMoreLikeThisToken),
                            !.isInMoreLikeThis = TRUE]

\* the onDispose callback handed to the scope
onDispose(q) == IF Panicked(q) THEN q ELSE [q EXCEPT !.isInMoreLikeThis = FALSE]

usingDefaultOperator(q, operator) ==
    IF Panicked(q) THEN q
    ELSE IF Len(q.whereTokens) > 0
         THEN panicIf(q, TRUE, "Default operator can only be set before any where clause is added.")
         ELSE [q EXCEPT !.defaultOperator = operator]


\* ------------------------------------------- select, order by, group by, paging
SelTok(kind, fieldName) == [kind |-> kind, fieldName |-> fieldName]

distinctTokenInstance == SelTok("distinct", "")

isDistinct(q) == Len(q.selectTokens) # 0 /\ q.selectTokens[1].kind = "distinct"

\* distinct that puts the marker after the select tokens
distinct_Appends(q) ==
    IF Panicked(q) THEN q
    ELSE IF isDistinct(q) THEN panicIf(q, TRUE, "The is already a distinct query")
    ELSE [q EXCEPT !.selectTokens = @ \o <<distinctTokenInstance>>]

distinct(q) ==
    IF Panicked(q) THEN q
    ELSE IF isDistinct(q) THEN panicIf(q, TRUE, "The is already a distinct query")
    ELSE [q EXCEPT !.selectTokens = <<distinctTokenInstance>> \o @]

groupByCount(q, projectedName) ==
    IF Panicked(q) THEN q
    ELSE LET q1 == assertNoRawQuery(q)
         IN IF Panicked(q1) THEN q1
            ELSE [q1 EXCEPT !.isGroupBy = TRUE,
                            !.selectTokens = Append(@, SelTok("groupByCount", projectedName))]

aggregateUsing(q, facetSetupDocumentID) ==
    IF Panicked(q) THEN q
    ELSE [q EXCEPT !.selectTokens = Append(@, SelTok("facet", facetSetupDocumentID))]

\* no alias was added to the builders modelled (addGroupByAlias is not
\* called): the field name is stored as it is given
groupByKey(q, fieldName, projectedName) ==
    IF Panicked(q) THEN q
    ELSE LET q1 == assertNoRawQuery(q)
         IN IF Panicked(q1) THEN q1
            ELSE [q1 EXCEPT !.isGroupBy = TRUE,
                            !.selectTokens = Append(@, SelTok("groupByKey", fieldName))]

groupBySum(q, fieldName0, projectedName) ==
    IF Panicked(q) THEN q
    ELSE LET q1 == assertNoRawQuery(q)
         IN IF Panicked(q1) THEN q1
            ELSE LET q2 == [q1 EXCEPT !.isGroupBy = TRUE]
                 IN [q2 EXCEPT !.selectTokens =
                         Append(@, SelTok("groupBySum",
                                          ensureValidFieldName(q2, fieldName0, FALSE)))]

\* the first fields-to-fetch token of the list, 0 when there is none
RECURSIVE firstFieldsToFetch(_, _)
firstFieldsToFetch(tokens, i) ==
    IF i > Len(tokens) THEN 0
    ELSE IF tokens[i].kind = "fieldsToFetch" THEN i
    ELSE firstFieldsToFetch(tokens, i + 1)

\* the token that is in the list is replaced where it stands, a first one is
\* appended
updateFieldsToFetchToken(q, fieldsToFetch) ==
    IF Panicked(q) THEN q
    ELSE LET idx == firstFieldsToFetch(q.selectTokens, 1)
         IN IF idx = 0 THEN [q EXCEPT !.selectTokens = Append(@, fieldsToFetch)]
            ELSE [q EXCEPT !.selectTokens[idx] = fieldsToFetch]

\* createFacetTokenWithFacetBase binds no parameter for the facets used here
aggregateBy(q, facet) ==
    IF Panicked(q) THEN q
    ELSE IF \E i \in 1..Len(q.selectTokens) : q.selectTokens[i].kind # "facet"
         THEN [q EXCEPT !.err = "IllegalStateError"]
         ELSE [q EXCEPT !.selectTokens = Append(@, SelTok("facet", facet))]

assertCanSuggest(q) ==
    IF Len(q.whereTokens) > 0 \/ Len(q.selectTokens) > 0 \/ Len(q.orderByTokens) > 0
    THEN [q EXCEPT !.err = "IllegalStateError"]
    ELSE q

\* options is <<>> for nil and for the default options; the name is left in
\* q.ret, <<>> when no parameter is bound
getOptionsParameterName(q, options) ==
    IF options = <<>> THEN [q EXCEPT !.ret = <<>>]
    ELSE addQueryParameter(q, options[1])

\* suggestUsing that does not look at the clauses the builder holds
suggestUsing_Unchecked(q, suggestion) ==
    IF Panicked(q) THEN q
    ELSE IF suggestion = <<>> THEN [q EXCEPT !.err = "IllegalArgumentError"]
    ELSE IF suggestion[1].type \notin {"SuggestionWithTerm", "SuggestionWithTerms"}
         THEN [q EXCEPT !.err = "UnsupportedOperationError"]
         ELSE LET q2 == addQueryParameter(q, suggestion[1].term)
                  q3 == getOptionsParameterName(q2, suggestion[1].options)
              IN [q3 EXCEPT !.selectTokens =
                      Append(@, SelTok("suggest", suggestion[1].field)),
                            !.ret = <<>>]

\* suggestion is <<>> for nil, else a term or a list of terms on a field with
\* options; the suggest token holds the names of the parameters bound
suggestUsing(q, suggestion) ==
    IF Panicked(q) THEN q
    ELSE IF suggestion = <<>> THEN [q EXCEPT !.err = "IllegalArgumentError"]
    ELSE LET q1 == assertCanSuggest(q)
         IN IF q1.err # "" THEN q1
            ELSE IF suggestion[1].type \notin {"SuggestionWithTerm", "SuggestionWithTerms"}
                 THEN [q1 EXCEPT !.err = "UnsupportedOperationError"]
                 ELSE LET q2 == addQueryParameter(q1, suggestion[1].term)
                          q3 == getOptionsParameterName(q2, suggestion[1].options)
                      IN [q3 EXCEPT !.selectTokens =
                              Append(@, SelTok("suggest", suggestion[1].field)),
                                    !.ret = <<>>]

\* groupBy with one field
groupBy(q, fieldName0) ==
    IF Panicked(q) THEN q
    ELSE LET q0 == panicIf(q, q.fromToken # <<>> /\ ~q.fromToken[1].isDynamic,
                           "groupBy only works with dynamic queries")
             q1 == IF Panicked(q0) THEN q0 ELSE assertNoRawQuery(q0)
         IN IF Panicked(q1) THEN q1
            ELSE LET q2 == [q1 EXCEPT !.isGroupBy = TRUE]
                     fieldName == ensureValidFieldName(q2, fieldName0, FALSE)
                 IN [q2 EXCEPT !.groupByTokens = Append(@, SelTok("groupBy", fieldName))]

orderByWithOrdering(q, field) ==
    IF Panicked(q) THEN q
    ELSE LET q1 == assertNoRawQuery(q)
         IN IF Panicked(q1) THEN q1
            ELSE [q1 EXCEPT !.orderByTokens =
                      Append(@, SelTok("ascending", ensureValidFieldName(q1, field, FALSE)))]

orderBy(q, field) == orderByWithOrdering(q, field)

noCaching(q) == IF Panicked(q) THEN q ELSE [q EXCEPT !.disableCaching = TRUE]

randomOrdering(q) ==
    IF Panicked(q) THEN q
    ELSE LET q1 == noCaching(assertNoRawQuery(q))
         IN IF Panicked(q1) THEN q1
            ELSE [q1 EXCEPT !.orderByTokens = Append(@, SelTok("random", ""))]

include(q, path) == IF Panicked(q) THEN q ELSE [q EXCEPT !.includes = Append(@, path)]

\* count is a pointer to an int: <<n>>
take(q, count) == IF Panicked(q) THEN q ELSE [q EXCEPT !.pageSize = count]

skip(q, count) == IF Panicked(q) THEN q ELSE [q EXCEPT !.start = count]


\* --------------------------------------------------------------- rendering
\* Query text is a sequence of strings, the pieces written to the builder in
\* order: two texts are byte-identical iff the sequences are equal piece by
\* piece (every piece written is either a keyword or a single name).
RECURSIVE Flatten(_)
Flatten(ss) == IF Len(ss) = 0 THEN <<>> ELSE Head(ss) \o Flatten(Tail(ss))

Letters ==
    {"a", "b", "c", "d", "e", "f", "g", "h", "i", "j", "k", "l", "m", "n", "o", "p",
     "q", "r", "s", "t", "u", "v", "w", "x", "y", "z",
     "A", "B", "C", "D", "E", "F", "G", "H", "I", "J", "K", "L", "M", "N", "O", "P",
     "Q", "R", "S", "T", "U", "V", "W", "X", "Y", "Z"}

isLetterOrDigit(ch) == ch \in Letters \cup {Digits[i] : i \in 1..10}

\* writeTo of the tokens
RECURSIVE whereTokenWriteTo(_), writeWhereTokens(_)

documentQueryHelperAddSpaceIfNeeded(prevToken, tok) ==
    IF prevToken = <<>> THEN <<>>
    ELSE IF prevToken[1].kind = "open" THEN <<>>
    ELSE IF tok.kind \in {"close", "intersect"} THEN <<>>
    ELSE <<" ">>

whereTokenWriteTo(tok) ==
    CASE tok.kind = "true" -> <<"true">>
      [] tok.kind = "open" -> <<"(">>
      [] tok.kind = "close" -> <<")">>
      [] tok.kind = "negate" -> <<"not">>
      [] tok.kind = "intersect" -> <<",">>
      [] tok.kind = "operator" -> <<tok.whereOperator>>
      [] tok.kind = "moreLikeThis" ->
            <<"moreLikeThis(">> \o writeWhereTokens(tok.whereTokens) \o <<")">>
      [] tok.kind = "where" ->
            <<tok.whereOperator, "(", tok.fieldName>>
            \o (IF tok.parameterName # <<>> THEN <<", $">> \o tok.parameterName ELSE <<>>)
            \o (IF tok.options.fromParameterName # <<>>
                THEN <<", $">> \o tok.options.fromParameterName
                     \o <<", $">> \o tok.options.toParameterName
                ELSE <<>>)
            \o Flatten([i \in 1..Len(tok.options.methodArgs) |->
                           <<", cmpxchg($">> \o tok.options.methodArgs[i] \o <<")">>])
            \o <<")">>

writeWhereTokens(tokens) ==
    Flatten([i \in 1..Len(tokens) |->
                documentQueryHelperAddSpaceIfNeeded(
                    IF i > 1 THEN <<tokens[i - 1]>> ELSE <<>>, tokens[i])
                \o whereTokenWriteTo(tokens[i])])

selTokenWriteTo(tok) ==
    IF tok.fieldName = "" THEN <<tok.kind>> ELSE <<tok.kind, "(", tok.fieldName, ")">>

buildDeclare(q, writer) ==
    IF q.declareToken # <<>> THEN writer \o <<"declare ", q.declareToken[1]>> ELSE writer

createFromToken(indexName, collectionName) ==
    <<[indexName |-> indexName, collectionName |-> collectionName,
       isDynamic |-> collectionName # ""]>>

fromTokenWriteTo(tok) ==
    IF tok.isDynamic THEN <<"from ", tok.collectionName>>
    ELSE <<"from index ", tok.indexName>>

\* q.fromToken is not nil here: String() stops before on a nil from token
buildFrom(q, writer) == writer \o fromTokenWriteTo(q.fromToken[1])

buildGroupBy(q, writer) ==
    IF Len(q.groupByTokens) = 0 THEN writer
    ELSE writer \o <<" group by ">>
         \o Flatten([i \in 1..Len(q.groupByTokens) |->
                        (IF i > 1 THEN <<", ">> ELSE <<>>)
                        \o selTokenWriteTo(q.groupByTokens[i])])

buildWhere(q, writer) ==
    IF Len(q.whereTokens) = 0 THEN writer
    ELSE writer \o <<" where ">>
         \o (IF q.isIntersect THEN <<"intersect(">> ELSE <<>>)
         \o writeWhereTokens(q.whereTokens)
         \o (IF q.isIntersect THEN <<") ">> ELSE <<>>)

buildOrderBy(q, writer) ==
    IF Len(q.orderByTokens) = 0 THEN writer
    ELSE writer \o <<" order by ">>
         \o Flatten([i \in 1..Len(q.orderByTokens) |->
                        (IF i > 1 THEN <<", ">> ELSE <<>>)
                        \o selTokenWriteTo(q.orderByTokens[i])])

buildLoad(q, writer) ==
    IF Len(q.loadTokens) = 0 THEN writer
    ELSE writer \o <<" load ">>
         \o Flatten([i \in 1..Len(q.loadTokens) |->
                        (IF i # 1 THEN <<", ">> ELSE <<>>) \o <<q.loadTokens[i]>>])

buildSelect(q, writer) ==
    IF Len(q.selectTokens) = 0 THEN writer
    ELSE IF Len(q.selectTokens) = 1 /\ q.selectTokens[1].kind = "distinct"
         THEN writer \o <<" select ">> \o selTokenWriteTo(q.selectTokens[1]) \o <<" *">>
         ELSE writer \o <<" select ">>
              \o Flatten([i \in 1..Len(q.selectTokens) |->
                    (IF i > 1 /\ q.selectTokens[i - 1].kind # "distinct"
                     THEN <<",">> ELSE <<>>)
                    \o documentQueryHelperAddSpaceIfNeeded(
                           IF i > 1 THEN <<q.selectTokens[i - 1]>> ELSE <<>>,
                           q.selectTokens[i])
                    \o selTokenWriteTo(q.selectTokens[i])])

\* the first occurrence of every string, in order
RECURSIVE stringArrayRemoveDuplicates(_)
stringArrayRemoveDuplicates(a) ==
    IF Len(a) = 0 THEN <<>>
    ELSE LET init == stringArrayRemoveDuplicates(SubSeq(a, 1, Len(a) - 1))
         IN IF \E i \in 1..Len(init) : init[i] = Last(a) THEN init
            ELSE Append(init, Last(a))

\* strings.Replace(path, "'", "\\'", -1); an include path is a sequence of characters
EscapeQuotes(path) ==
    Flatten([i \in 1..Len(path) |->
                IF path[i] = "'" THEN <<"\\", "'">> ELSE <<path[i]>>])

\* buildInclude that writes the includes as they were given and removes the
\* duplicates afterwards
buildInclude_WriteBeforeDedup(q, writer) ==
    IF Len(q.includes) = 0 THEN [q EXCEPT !.ret = writer]
    ELSE LET incs == q.includes
             one(i) ==
                 LET inc == incs[i]
                     requiredQuotes ==
                         \E k \in 1..Len(inc) :
                             ~isLetterOrDigit(inc[k]) /\ inc[k] # "_" /\ inc[k] # "."
                 IN (IF i > 1 THEN <<",">> ELSE <<>>)
                    \o (IF requiredQuotes
                        THEN <<"'">> \o EscapeQuotes(inc) \o <<"'">>
                        ELSE inc)
         IN [q EXCEPT !.includes = stringArrayRemoveDuplicates(incs),
                      !.ret = writer \o <<" include ">>
                              \o Flatten([i \in 1..Len(incs) |-> one(i)])]

\* the includes of q are replaced by their duplicate-free list; the text
\* written is left in q.ret
buildInclude(q, writer) ==
    IF Len(q.includes) = 0 THEN [q EXCEPT !.ret = writer]
    ELSE LET incs == stringArrayRemoveDuplicates(q.includes)
             one(i) ==
                 LET inc == incs[i]
                     requiredQuotes ==
                         \E k \in 1..Len(inc) :
                             ~isLetterOrDigit(inc[k]) /\ inc[k] # "_" /\ inc[k] # "."
                 IN (IF i > 1 THEN <<",">> ELSE <<>>)
                    \o (IF requiredQuotes
                        THEN <<"'">> \o EscapeQuotes(inc) \o <<"'">>
                        ELSE inc)
         IN [q EXCEPT !.includes = incs,
                      !.ret = writer \o <<" include ">>
                              \o Flatten([i \in 1..Len(incs) |-> one(i)])]

\* String() that rejects only a positive clause depth
String_OnlyUnclosed(q) ==
    IF Panicked(q) THEN q
    ELSE IF q.queryRaw # "" THEN [q EXCEPT !.ret = <<q.queryRaw>>]
    ELSE IF q.currentClauseDepth > 0
         THEN panicIf(q, TRUE, "A clause was not closed correctly within this query")
    ELSE IF q.fromToken = <<>>
         THEN panicIf(q, TRUE, "nil pointer dereference")
         ELSE buildInclude(q, buildSelect(q, buildLoad(q, buildOrderBy(q,
                  buildWhere(q, buildGroupBy(q, buildFrom(q, buildDeclare(q, <<>>))))))))

\* String(): the text is left in q.ret.  buildFrom calls writeTo of the from
\* token without a nil check: on a builder that was constructed without a from
\* token the call dereferences nil, and String() panics before any later clause
\* is built (buildDeclare before it changes nothing of the builder).
String(q) ==
    IF Panicked(q) THEN q
    ELSE IF q.queryRaw # "" THEN [q EXCEPT !.ret = <<q.queryRaw>>]
    ELSE IF q.currentClauseDepth # 0
         THEN panicIf(q, TRUE, "A clause was not closed correctly within this query")
    ELSE IF q.fromToken = <<>>
         THEN panicIf(q, TRUE, "nil pointer dereference")
         ELSE buildInclude(q, buildSelect(q, buildLoad(q, buildOrderBy(q,
                  buildWhere(q, buildGroupBy(q, buildFrom(q, buildDeclare(q, <<>>))))))))


\* --------------------------------------------------------------- execution
\* seconds
getQueryDefaultTimeout == 15

waitForNonStaleResults(q, waitTimeout) ==
    IF Panicked(q) THEN q
    ELSE [q EXCEPT !.theWaitForNonStaleResults = TRUE,
                   !.timeout = IF waitTimeout = 0 THEN getQueryDefaultTimeout
                               ELSE waitTimeout]

\* the errors of the transport
TransportErrors == {"timeout", "refused"}

\* what the transport answers to a query: the results the server has for it,
\* or an error
QueryResponses ==
    {[err |-> "", results |-> r] :
        r \in {<<>>, <<"users/1">>, <<"users/1", "users/2">>}}
    \cup {[err |-> e, results |-> <<>>] : e \in TransportErrors}

\* the parameter map of the index query is the map of the builder itself, not
\* a copy of it: the index query holds a reference to it
GenerateIndexQuery(q, query) ==
    [query |-> query, start |-> q.start,
     waitForNonStaleResults |-> q.theWaitForNonStaleResults,
     waitForNonStaleResultsTimeout |-> q.timeout,
     queryParameters |-> "q.queryParameters",
     disableCaching |-> q.disableCaching,
     pageSize |-> q.pageSize]

\* the parameter map an index query of builder q refers to
indexQueryParameters(q, indexQuery) ==
    IF indexQuery.queryParameters = "q.queryParameters" THEN q.queryParameters
    ELSE EmptyMap

\* the callback the constructor registers as the first after-query listener
StatsListener == "updateStatsAndHighlightings"

addBeforeQueryExecutedListener(q, action) ==
    IF Panicked(q) THEN q
    ELSE [q EXCEPT !.beforeQueryExecutedCallback = Append(@, action),
                   !.ret = <<Len(q.beforeQueryExecutedCallback)>>]

\* an index outside the slice is a run-time panic
removeBeforeQueryExecutedListener(q, idx) ==
    IF Panicked(q) THEN q
    ELSE IF idx >= Len(q.beforeQueryExecutedCallback)
         THEN panicIf(q, TRUE, "index out of range")
         ELSE [q EXCEPT !.beforeQueryExecutedCallback[idx + 1] = "nil"]

\* addAfterQueryExecutedListener that hands out the length of the slice
addAfterQueryExecutedListener_OffByOne(q, action) ==
    IF Panicked(q) THEN q
    ELSE [q EXCEPT !.afterQueryExecutedCallback = Append(@, action),
                   !.ret = <<Len(q.afterQueryExecutedCallback) + 1>>]

addAfterQueryExecutedListener(q, action) ==
    IF Panicked(q) THEN q
    ELSE [q EXCEPT !.afterQueryExecutedCallback = Append(@, action),
                   !.ret = <<Len(q.afterQueryExecutedCallback)>>]

removeAfterQueryExecutedListener(q, idx) ==
    IF Panicked(q) THEN q
    ELSE IF idx >= Len(q.afterQueryExecutedCallback)
         THEN panicIf(q, TRUE, "index out of range")
         ELSE [q EXCEPT !.afterQueryExecutedCallback[idx + 1] = "nil"]

addAfterStreamExecutedListener(q, action) ==
    IF Panicked(q) THEN q
    ELSE [q EXCEPT !.afterStreamExecutedCallback = Append(@, action),
                   !.ret = <<Len(q.afterStreamExecutedCallback)>>]

removeAfterStreamExecutedListener(q, idx) ==
    IF Panicked(q) THEN q
    ELSE IF idx >= Len(q.afterStreamExecutedCallback)
         THEN panicIf(q, TRUE, "index out of range")
         ELSE [q EXCEPT !.afterStreamExecutedCallback[idx + 1] = "nil"]

\* QueryStatistics.UpdateQueryStats: the statistics take the total of the result
updateStatsAndHighlightings(q, queryResult) ==
    [q EXCEPT !.queryStats = <<Len(queryResult)>>]

\* the loop over a callback slice: the callbacks that are not nil are called
\* in the order of the slice; a listener of the caller is logged when called
RECURSIVE callEach(_, _, _, _)
callEach(q, callbacks, kind, arg) ==
    IF Len(callbacks) = 0 THEN q
    ELSE LET cb == Head(callbacks)
             q1 == IF cb = "nil" THEN q
                   ELSE IF cb = StatsListener THEN updateStatsAndHighlightings(q, arg)
                   ELSE [q EXCEPT !.invoked = Append(@, [kind |-> kind, listener |-> cb])]
         IN callEach(q1, Tail(callbacks), kind, arg)

\* (the builder is bound to x, so that it is evaluated once)
invokeBeforeQueryExecuted(q, query) ==
    CHOOSE r \in {IF Panicked(x) THEN x
                  ELSE callEach(x, x.beforeQueryExecutedCallback,
                                "beforeQueryExecuted", query) : x \in {q}} : TRUE

invokeAfterStreamExecuted(q, result) ==
    CHOOSE r \in {IF Panicked(x) THEN x
                  ELSE callEach(x, x.afterStreamExecutedCallback,
                                "afterStreamExecuted", result) : x \in {q}} : TRUE

\* the text is left in q.ret
GetIndexQuery(q) ==
    CHOOSE r \in {IF Panicked(q1) THEN q1
                  ELSE [invokeBeforeQueryExecuted(q1, GenerateIndexQuery(q1, q1.ret))
                            EXCEPT !.ret = q1.ret] : q1 \in {String(q)}} : TRUE

\* the operation holds the index query and, once the query was executed, the
\* results
NewQueryOperation(q, indexQuery) ==
    [q EXCEPT !.queryOperationsCreated = @ + 1,
              !.ret = <<[indexQuery |-> indexQuery, hasResult |-> FALSE,
                         results |-> <<>>, setResultCalls |-> 0]>>]

\* GetIndexQuery and NewQueryOperation; the operation is left in q.queryOperation
initializeQueryOperation(q) ==
    IF Panicked(q) \/ q.err # "" THEN q
    ELSE LET q1 == GetIndexQuery(q)
         IN IF Panicked(q1) THEN q1
            ELSE LET q2 == NewQueryOperation(q1, GenerateIndexQuery(q1, q1.ret))
                 IN [q2 EXCEPT !.queryOperation = q2.ret]

\* the results the server sends for a response: at most a page of them
ResultsSent(indexQuery, resp) ==
    IF indexQuery.pageSize # <<>> /\ indexQuery.pageSize[1] < Len(resp.results)
    THEN SubSeq(resp.results, 1, indexQuery.pageSize[1])
    ELSE resp.results

\* the callbacks are handed the result: the one the constructor registers
\* refreshes the statistics
invokeAfterQueryExecuted(q, result) ==
    CHOOSE r \in {[callEach(x, x.afterQueryExecutedCallback, "afterQueryExecuted", res)
                      EXCEPT !.afterQueryExecuted = Append(@, res)] :
                      x \in {q}, res \in {result}} : TRUE

\* QueryOperation.setResult: the operation takes the result of the command
setResult_OfQuery(q, resp) ==
    [q EXCEPT !.queryOperation[1].hasResult = (resp.err = ""),
              !.queryOperation[1].results =
                  ResultsSent(q.queryOperation[1].indexQuery, resp),
              !.queryOperation[1].setResultCalls = @ + 1]

\* executeActualQuery that reports a failure of the transport as its own error
executeActualQuery_WrapsError(q, resp) ==
    IF Panicked(q) \/ q.err # "" THEN q
    ELSE LET q1 == setResult_OfQuery([q EXCEPT !.transportCalls = @ + 1], resp)
         IN IF resp.err = "" THEN invokeAfterQueryExecuted(q1, q1.queryOperation[1].results)
            ELSE [q1 EXCEPT !.err = "query failed"]

\* resp is the outcome of RequestExecutor.ExecuteCommand; the result of the
\* command is handed to the operation before the error is looked at
executeActualQuery(q, resp) ==
    IF Panicked(q) \/ q.err # "" THEN q
    ELSE LET q1 == setResult_OfQuery([q EXCEPT !.transportCalls = @ + 1], resp)
         IN IF resp.err = "" THEN invokeAfterQueryExecuted(q1, q1.queryOperation[1].results)
            ELSE [q1 EXCEPT !.err = resp.err]

\* initSync that does not look for an operation that exists
initSync_NoEarlyReturn(q, resp) ==
    IF Panicked(q) \/ q.err # "" THEN q
    ELSE executeActualQuery(initializeQueryOperation(q), resp)

initSync(q, resp) ==
    IF Panicked(q) \/ q.err # "" THEN q
    ELSE IF q.queryOperation # <<>> THEN q
    ELSE executeActualQuery(initializeQueryOperation(q), resp)

\* the snapshot of the results is left in q.ret
GetQueryResult(q, resp) ==
    LET q1 == initSync(q, resp)
    IN IF Panicked(q1) \/ q1.err # "" THEN q1
       ELSE [q1 EXCEPT !.ret = q1.queryOperation[1].results]

\* QueryOperation.complete: the results the operation holds are left in q.ret
complete(q) ==
    IF Panicked(q) \/ q.err # "" THEN q
    ELSE [q EXCEPT !.ret = q.queryOperation[1].results]

\* executeQueryOperation that takes n results whatever the page size is
executeQueryOperation_AlwaysTakes(q, n, resp) ==
    IF Panicked(q) THEN q
    ELSE complete(initSync(IF n # 0 THEN take(q, <<n>>) ELSE q, resp))

executeQueryOperation(q, n, resp) ==
    IF Panicked(q) THEN q
    ELSE LET q1 == IF n # 0 /\ (q.pageSize = <<>> \/ q.pageSize[1] > n)
                   THEN take(q, <<n>>) ELSE q
         IN complete(initSync(q1, resp))

\* the type of the results is taken from the value they are asked into; a
\* builder without a from token has neither index nor collection name, and
\* gets the from token of the collection of that type
setClazzFromResult(q) ==
    IF Panicked(q) \/ q.clazz THEN q
    ELSE IF q.fromToken # <<>> THEN [q EXCEPT !.clazz = TRUE]
    ELSE [q EXCEPT !.clazz = TRUE, !.fromToken = createFromToken("", "Users")]

\* no select fields are delayed; the from token of a builder that does not
\* know the type of the results is created from the type they are asked into
GetResults(q, resp) ==
    IF Panicked(q) THEN q
    ELSE executeQueryOperation(
             IF ~q.clazz
             THEN [q EXCEPT !.clazz = TRUE,
                            !.fromToken = IF @ = <<>> THEN createFromToken("", "Users")
                                          ELSE @]
             ELSE q,
             0, resp)

\* the first result is left in q.ret
First(q, resp) ==
    LET q1 == executeQueryOperation(setClazzFromResult(q), 1, resp)
    IN IF Panicked(q1) \/ q1.err # "" THEN q1
       ELSE IF Len(q1.ret) = 0
            THEN [q1 EXCEPT !.err = "IllegalStateError", !.ret = <<>>]
            ELSE [q1 EXCEPT !.ret = <<q1.ret[1]>>]

\* Single that takes the first of several results
Single_AcceptsSeveral(q, resp) ==
    LET q1 == executeQueryOperation(setClazzFromResult(q), 2, resp)
    IN IF Panicked(q1) \/ q1.err # "" THEN q1
       ELSE IF Len(q1.ret) = 0
            THEN [q1 EXCEPT !.err = "IllegalStateError", !.ret = <<>>]
            ELSE [q1 EXCEPT !.ret = <<q1.ret[1]>>]

\* the only result is left in q.ret
Single(q, resp) ==
    LET q1 == executeQueryOperation(setClazzFromResult(q), 2, resp)
    IN IF Panicked(q1) \/ q1.err # "" THEN q1
       ELSE IF Len(q1.ret) # 1
            THEN [q1 EXCEPT !.err = "IllegalStateError", !.ret = <<>>]
            ELSE [q1 EXCEPT !.ret = <<q1.ret[1]>>]

Count(q, resp) == GetQueryResult(take(q, <<0>>), resp)

\* on a distinct query the type of the results is read without a nil check
Any(q, resp) ==
    IF Panicked(q) THEN q
    ELSE IF isDistinct(q)
         THEN IF ~q.clazz THEN panicIf(q, TRUE, "nil pointer dereference")
              ELSE executeQueryOperation(q, 1, resp)
         ELSE GetQueryResult(take(q, <<0>>), resp)

\* NewLazyQueryOperation: the lazy operation of a query operation; count tells
\* whether the number of results is asked for
NewLazyQueryOperation(operation, count) ==
    [queryOperation |-> operation, count |-> count]

\* the session puts the lazy operation behind the ones it holds; the handle is
\* left in q.ret
addLazyOperation(q, lazyQueryOperation) ==
    [q EXCEPT !.pendingLazyOperations = Append(@, lazyQueryOperation),
              !.ret = <<Len(q.pendingLazyOperations) + 1>>]

addLazyCountOperation(q, lazyQueryOperation) == addLazyOperation(q, lazyQueryOperation)

\* Lazily that sends the query when the handle is registered
Lazily_Eager(q) ==
    LET q1 == setClazzFromResult(q)
        q2 == IF Panicked(q1) \/ q1.queryOperation # <<>> THEN q1
              ELSE executeActualQuery(initializeQueryOperation(q1),
                                      [err |-> "", results |-> <<>>])
    IN IF Panicked(q2) THEN q2
       ELSE addLazyOperation(q2, NewLazyQueryOperation(q2.queryOperation[1], FALSE))

\* the lazy operation is handed to the session; nothing is sent here
Lazily(q) ==
    LET q1 == setClazzFromResult(q)
        q2 == IF Panicked(q1) \/ q1.queryOperation # <<>> THEN q1
              ELSE initializeQueryOperation(q1)
    IN IF Panicked(q2) THEN q2
       ELSE addLazyOperation(q2, NewLazyQueryOperation(q2.queryOperation[1], FALSE))

\* the lazy operation is handed to the session; nothing is sent here
CountLazily(q) ==
    LET q2 == IF Panicked(q) \/ q.queryOperation # <<>> THEN q
              ELSE initializeQueryOperation(take(q, <<0>>))
    IN IF Panicked(q2) THEN q2
       ELSE addLazyCountOperation(q2, NewLazyQueryOperation(q2.queryOperation[1], TRUE))

\* the flush of the session: the lazy operations it holds go to the server in
\* one request and are evaluated in the order the session holds them; the
\* operations evaluated are left in q.ret
executeAllPendingLazyOperations(q, resp) ==
    IF Panicked(q) \/ Len(q.pendingLazyOperations) = 0 THEN q
    ELSE LET q1 == [q EXCEPT !.transportCalls = @ + 1]
         IN IF resp.err # "" THEN [q1 EXCEPT !.err = resp.err]
            ELSE [q1 EXCEPT !.pendingLazyOperations = <<>>,
                            !.ret = q.pendingLazyOperations]

\* ------------------------------------------- the session and LoadOperation
\* ids handed to the session; "Users/1" and "users/1" differ in case only
DocIds == {"users/1", "Users/1", "users/2"}
Ids == DocIds \cup {"", " "}

\* strings.ToLower on the ids of the model
ToLower(id) == IF id = "Users/1" THEN "users/1" ELSE id

\* 0 when a and b are equal ignoring case
String_compareToIgnoreCase(a, b) == IF ToLower(a) = ToLower(b) THEN 0 ELSE 1

\* 0 when a and b are equal
String_compareTo(a, b) == IF a = b THEN 0 ELSE 1

\* Set_String.add: strings keeps the first of the strings that compare equal
Set_String_add(strings, cmp(_, _), s) ==
    IF \E i \in 1..Len(strings) : cmp(strings[i], s) = 0 THEN strings
    ELSE Append(strings, s)

\* the documents of the server: users/1 refers to users/2 in its field friend
IncludePathsOfLoad == {<<>>, <<"friend">>}
Ref(id) == IF ToLower(id) = "users/1" THEN "users/2" ELSE ""

\* the session as a record; panic, err, ret and log are the outcome of one call
S == [documentsById |-> documentsById, includedDocumentsById |-> includedDocumentsById,
      knownMissingIds |-> knownMissingIds, numberOfRequests |-> numberOfRequests,
      transportCalls |-> transportCalls,
      panic |-> "", err |-> "", ret |-> <<>>, log |-> <<>>, request |-> <<>>]

NewLoadOperation == [_ids |-> <<>>, _includes |-> <<>>, _idsToCheckOnServer |-> <<>>]

\* documentsById keeps one entry per id, ignoring case
documentsById_getValue(s, id) ==
    IF ToLower(id) \in DOMAIN s.documentsById THEN <<s.documentsById[ToLower(id)]>>
    ELSE <<>>

documentsById_add(s, info) ==
    IF ToLower(info.id) \in DOMAIN s.documentsById THEN s
    ELSE [s EXCEPT !.documentsById = MapPut(@, ToLower(info.id), info)]

IsDeleted(s, id) == ToLower(id) \in s.knownMissingIds

IsLoadedOrDeleted(s, id) ==
    \/ documentsById_getValue(s, id) # <<>>
    \/ IsDeleted(s, id)
    \/ id \in s.includedDocumentsById

\* whether every id is known to the session with its entity and its includes
checkIfIdAlreadyIncluded(s, ids, incl) ==
    \A i \in 1..Len(ids) :
        \/ IsDeleted(s, ids[i])
        \/ LET doc == documentsById_getValue(s, ids[i])
           IN /\ doc # <<>>
              /\ doc[1].entity
              /\ (Len(incl) # 0 /\ Ref(ids[i]) # "")
                    => IsLoadedOrDeleted(s, Ref(ids[i]))

incrementRequestCount(s) == [s EXCEPT !.numberOfRequests = @ + 1]

\* the command is left in s.ret, <<>> for nil, and stays in s.request
createRequest(s, o) ==
    IF Len(o._idsToCheckOnServer) = 0 THEN [s EXCEPT !.ret = <<>>]
    ELSE IF checkIfIdAlreadyIncluded(s, o._ids, o._includes) THEN [s EXCEPT !.ret = <<>>]
    ELSE [incrementRequestCount(s) EXCEPT
              !.ret = <<[ids |-> o._idsToCheckOnServer, includes |-> o._includes]>>,
              !.request = <<[ids |-> o._idsToCheckOnServer, includes |-> o._includes]>>]

\* byId that does not ask the session whether the id is loaded or deleted
byId_NoLoadedCheck(s, o, id) ==
    IF id = "" THEN o
    ELSE [o EXCEPT !._ids = IF o._ids = <<>> THEN <<id>> ELSE @,
                   !._idsToCheckOnServer = Append(@, id)]

byId(s, o, id) ==
    IF id = "" THEN o
    ELSE LET o1 == IF o._ids = <<>> THEN [o EXCEPT !._ids = <<id>>] ELSE o
         IN IF IsLoadedOrDeleted(s, id) THEN o1
            ELSE [o1 EXCEPT !._idsToCheckOnServer = Append(@, id)]

withIncludes(o, incl) == [o EXCEPT !._includes = incl]

\* the non-empty ids, one of those that compare equal, in their order
RECURSIVE DistinctIds(_, _, _)
DistinctIds(ids, cmp(_, _), strings) ==
    IF Len(ids) = 0 THEN strings
    ELSE DistinctIds(Tail(ids), cmp,
                     IF Head(ids) # "" THEN Set_String_add(strings, cmp, Head(ids))
                     ELSE strings)

RECURSIVE byIdEach(_, _, _)
byIdEach(s, o, ids) ==
    IF Len(ids) = 0 THEN o ELSE byIdEach(s, byId(s, o, Head(ids)), Tail(ids))

\* byIds with a set that compares the ids as they are
byIds_CaseSensitive(s, o, ids) ==
    byIdEach(s, [o EXCEPT !._ids = ids], DistinctIds(ids, String_compareTo, <<>>))

byIds(s, o, ids) ==
    byIdEach(s, [o EXCEPT !._ids = ids],
             DistinctIds(ids, String_compareToIgnoreCase, <<>>))

\* what the transport answers to a load request: the documents the server has,
\* or an error; after an error the command holds no result, as an interface
\* that is nil or as a nil *GetDocumentsResult
ServerIds == {"users/1", "users/2"}
LoadResponses ==
    {[err |-> "", serverDocs |-> d, nilInterface |-> FALSE] : d \in SUBSET ServerIds}
    \cup {[err |-> e, serverDocs |-> {}, nilInterface |-> b] :
             e \in TransportErrors, b \in BOOLEAN}

DocumentInfo_getNewDocumentInfo(id) == [id |-> id, entity |-> FALSE]

\* the GetDocumentsResult of the server for a command: one result per id, <<>>
\* for null, and the documents the results refer to when includes are asked for
GetDocumentsResult(command, serverDocs) ==
    LET results == [i \in 1..Len(command.ids) |->
                       IF ToLower(command.ids[i]) \in serverDocs
                       THEN <<ToLower(command.ids[i])>> ELSE <<>>]
    IN [results |-> results,
        includes |-> IF Len(command.includes) = 0 THEN {}
                     ELSE {Ref(results[i][1]) :
                              i \in {k \in 1..Len(results) : results[k] # <<>>}}
                          \cap serverDocs]

\* RequestExecutor.executeCommandWithSessionInfo: the result of the command is
\* left in s.ret (<<>> for a nil *GetDocumentsResult), the error in s.err
executeCommandWithSessionInfo(s, command, resp) ==
    [s EXCEPT !.transportCalls = @ + 1,
              !.err = resp.err,
              !.ret = IF resp.err = "" THEN <<GetDocumentsResult(command, resp.serverDocs)>>
                      ELSE <<>>]

registerIncludes(s, incl) ==
    [s EXCEPT !.includedDocumentsById = @ \cup incl,
              !.log = Append(@, <<"registerIncludes">>)]

\* the ids the results refer to through the include paths that the session has
\* not got, neither loaded nor as an include, are recorded as missing
registerMissingIncludes(s, results, incl, includePaths) ==
    LET s1 == [s EXCEPT !.log = Append(@, <<"registerMissingIncludes">>)]
    IN IF Len(includePaths) = 0 THEN s1
       ELSE LET refs == {Ref(results[i][1]) :
                            i \in {k \in 1..Len(results) : results[k] # <<>>}} \ {""}
                missing == {id \in refs : ~IsLoadedOrDeleted(s, id) /\ id \notin incl}
            IN [s1 EXCEPT !.knownMissingIds = @ \cup {ToLower(id) : id \in missing}]

RECURSIVE addDocuments(_, _)
addDocuments(s, results) ==
    IF Len(results) = 0 THEN s
    ELSE IF Head(results) = <<>> THEN addDocuments(s, Tail(results))
    ELSE addDocuments(
             [documentsById_add(s, DocumentInfo_getNewDocumentInfo(Head(results)[1]))
                  EXCEPT !.log = Append(@, <<"documentsById.add", Head(results)[1]>>)],
             Tail(results))

\* setResult that registers the missing includes before the documents
setResult_MissingIncludesFirst(s, o, result) ==
    IF result = <<>> THEN s
    ELSE addDocuments(
             registerMissingIncludes(registerIncludes(s, result[1].includes),
                                     result[1].results, result[1].includes, o._includes),
             result[1].results)

\* result is <<>> for nil
setResult(s, o, result) ==
    IF result = <<>> THEN s
    ELSE registerMissingIncludes(
             addDocuments(registerIncludes(s, result[1].includes), result[1].results),
             result[1].results, result[1].includes, o._includes)

\* the entity of a document the session has; the document is tracked in
\* documentsById from now on
TrackEntityInDocumentInfo(s, id) ==
    LET s1 == documentsById_add(s, DocumentInfo_getNewDocumentInfo(ToLower(id)))
    IN [s1 EXCEPT !.documentsById[ToLower(id)].entity = TRUE,
                  !.includedDocumentsById = @ \ {id},
                  !.ret = <<ToLower(id)>>]

\* the document is left in s.ret: <<>> for the default value
getDocumentWithID(s, o, id) ==
    IF id = "" THEN [s EXCEPT !.ret = <<>>]
    ELSE IF IsDeleted(s, id) THEN [s EXCEPT !.ret = <<>>]
    ELSE IF documentsById_getValue(s, id) # <<>> THEN TrackEntityInDocumentInfo(s, id)
    ELSE IF id \in s.includedDocumentsById THEN TrackEntityInDocumentInfo(s, id)
    ELSE [s EXCEPT !.ret = <<>>]

getDocument(s, o) == getDocumentWithID(s, o, o._ids[1])

\* DocumentSession.load: the error of executeCommandWithSessionInfo is dropped,
\* and the type assertion on the result of the command panics when the command
\* holds a nil interface
load(s, id, resp) ==
    IF id = "" THEN [s EXCEPT !.ret = <<>>]
    ELSE LET loadOperation == byId(s, NewLoadOperation, id)
             s1 == createRequest(s, loadOperation)
             command == s1.ret
         IN IF command = <<>> THEN getDocument(s1, loadOperation)
            ELSE LET s2 == executeCommandWithSessionInfo(s1, command[1], resp)
                     s3 == [s2 EXCEPT !.err = ""]
                 IN IF resp.nilInterface
                    THEN panicIf([s3 EXCEPT !.ret = <<>>], TRUE,
                                 "interface conversion: interface is nil")
                    ELSE getDocument(setResult(s3, loadOperation, s2.ret), loadOperation)

\* a load of several ids with includes: the operation is set up with
\* withIncludes and byIds, its request is executed and the result handed to
\* setResult; an error of the transport is returned
loadInternal(s, ids, incl, resp) ==
    LET loadOperation == byIds(s, withIncludes(NewLoadOperation, incl), ids)
        s1 == createRequest(s, loadOperation)
        command == s1.ret
    IN IF command = <<>> THEN s1
       ELSE LET s2 == executeCommandWithSessionInfo(s1, command[1], resp)
            IN IF s2.err # "" THEN [s2 EXCEPT !.ret = <<>>]
               ELSE [setResult(s2, loadOperation, s2.ret) EXCEPT !.ret = <<>>]

\* ------------------------------------------------------------ the builder
\* the builder as a record; panic, err and ret are the outcome of one call
Q == [queryRaw |-> queryRaw, defaultOperator |-> defaultOperator, negate |-> negate,
      currentClauseDepth |-> currentClauseDepth, queryParameters |-> queryParameters,
      isIntersect |-> isIntersect, isGroupBy |-> isGroupBy,
      isInMoreLikeThis |-> isInMoreLikeThis, pageSize |-> pageSize, start |-> start,
      disableCaching |-> disableCaching, declareToken |-> declareToken,
      fromToken |-> fromToken, loadTokens |-> loadTokens, selectTokens |-> selectTokens,
      whereTokens |-> whereTokens, groupByTokens |-> groupByTokens,
      orderByTokens |-> orderByTokens, includes |-> includes,
      queryOperation |-> queryOperation, clazz |-> clazz,
      theWaitForNonStaleResults |-> theWaitForNonStaleResults, timeout |-> timeout,
      queryOperationsCreated |-> queryOperationsCreated,
      pendingLazyOperations |-> pendingLazyOperations,
      queryStats |-> queryStats, afterQueryExecuted |-> afterQueryExecuted,
      beforeQueryExecutedCallback |-> beforeQueryExecutedCallback,
      afterQueryExecutedCallback |-> afterQueryExecutedCallback,
      afterStreamExecutedCallback |-> afterStreamExecutedCallback,
      invoked |-> invoked,
      transportCalls |-> transportCalls,
      panic |-> "", err |-> "", ret |-> <<>>]

\* what a builder is constructed with: a collection, a static index with a
\* declare and a load token, neither index nor collection nor the type of the
\* results (the from token is then created from the type the results are
\* asked into), and raw query text
Constructions ==
    {[queryRaw |-> "", fromToken |-> createFromToken("", "Users"),
      declareToken |-> <<>>, loadTokens |-> <<>>, clazz |-> TRUE],
     [queryRaw |-> "", fromToken |-> createFromToken("UsersByName", ""),
      declareToken |-> <<"function f(u) { return u; }">>,
      loadTokens |-> <<"u.friend as f">>, clazz |-> TRUE],
     [queryRaw |-> "", fromToken |-> <<>>, declareToken |-> <<>>, loadTokens |-> <<>>,
      clazz |-> FALSE],
     [queryRaw |-> "from Users", fromToken |-> createFromToken("", "Users"),
      declareToken |-> <<>>, loadTokens |-> <<>>, clazz |-> TRUE]}

\* transport is the error the transport gives to the call if it is asked, log
\* and request are the session calls and the outgoing request of a load
NoCall == [op |-> "", field |-> "", name |-> <<>>, value |-> "", n |-> 0,
           ids |-> <<>>, transport |-> "", response |-> {}, log |-> <<>>,
           request |-> <<>>,
           panic |-> "", err |-> "", ret |-> <<>>, prevOp |-> "", prevRet |-> <<>>]

\* ------------------------------------------- eviction of the cache on changes
DocumentChangeTypes_PUT == "PUT"
DocumentChangeTypes_DELETE == "DELETE"
IndexChangeTypes_BATCH_COMPLETED == "BATCH_COMPLETED"
IndexChangeTypes_INDEX_REMOVED == "INDEX_REMOVED"

\* the two subscriptions the constructor makes with the same observer: each
\* delivers its notifications on its own
Subscriptions == {"_documentsSubscription", "_indexesSubscription"}

\* the values a subscription hands to OnNext: document changes, index changes
\* and a value of another type
ChangeValues ==
    {[type |-> "DocumentChange", Type |-> t] :
        t \in {DocumentChangeTypes_PUT, DocumentChangeTypes_DELETE, "NONE"}}
    \cup {[type |-> "IndexChange", Type |-> t] :
        t \in {IndexChangeTypes_BATCH_COMPLETED, IndexChangeTypes_INDEX_REMOVED,
               "INDEX_ADDED"}}
    \cup {[type |-> "OperationStatusChange", Type |-> "NONE"]}

\* the conditions under which OnNext reaches the counter
Evicts(value) ==
    \/ /\ value.type = "DocumentChange"
       /\ value.Type \in {DocumentChangeTypes_PUT, DocumentChangeTypes_DELETE}
    \/ /\ value.type = "IndexChange"
       /\ value.Type \in {IndexChangeTypes_BATCH_COMPLETED, IndexChangeTypes_INDEX_REMOVED}

\* an increment that writes back the value the call saw when it began
incrementAndGet_ReadThenWrite(counter, observed) == observed + 1

\* the increment of the atomic counter: one step on the value the counter
\* holds at that moment
incrementAndGet(counter, observed) == counter + 1

Idle == [pc |-> "idle", value |-> <<>>, observed |-> 0]

\* a subscription hands a value to OnNext: the call returns at once for a
\* value that does not evict and goes on to the counter for one that does
OnNextBegin(s, value) ==
    /\ onNext[s].pc = "idle"
    /\ notified.evicting + notified.other < MaxNotifications
    /\ notified' = IF Evicts(value) THEN [notified EXCEPT !.evicting = @ + 1]
                                    ELSE [notified EXCEPT !.other = @ + 1]
    /\ onNext' = [onNext EXCEPT ![s] =
                      IF Evicts(value)
                      THEN [pc |-> "increment", value |-> <<value>>,
                            observed |-> generation]
                      ELSE Idle]
    /\ UNCHANGED generation

\* the call increments the counter and returns
OnNextIncrement(s) ==
    /\ onNext[s].pc = "increment"
    /\ generation' = incrementAndGet(generation, onNext[s].observed)
    /\ onNext' = [onNext EXCEPT ![s] = Idle]
    /\ UNCHANGED notified

\* a builder constructed as c, called at most bound times with field names
\* from fields
InitWithFields(c, bound, fields) ==
    /\ queryRaw = c.queryRaw
    /\ fromToken = c.fromToken
    /\ declareToken = c.declareToken
    /\ loadTokens = c.loadTokens
    /\ defaultOperator = "AND"
    /\ negate = FALSE
    /\ currentClauseDepth = 0
    /\ queryParameters = EmptyMap
    /\ isIntersect = FALSE
    /\ isGroupBy = FALSE
    /\ isInMoreLikeThis = FALSE
    /\ pageSize = <<>>
    /\ start = 0
    /\ disableCaching = FALSE
    /\ selectTokens = <<>>
    /\ whereTokens = <<>>
    /\ groupByTokens = <<>>
    /\ orderByTokens = <<>>
    /\ includes = <<>>
    /\ queryOperation = <<>>
    /\ clazz = c.clazz
    /\ theWaitForNonStaleResults = FALSE
    /\ timeout = 0
    /\ queryOperationsCreated = 0
    /\ pendingLazyOperations = <<>>
    /\ queryStats = <<>>
    /\ afterQueryExecuted = <<>>
    /\ beforeQueryExecutedCallback = <<>>
    /\ afterQueryExecutedCallback = <<StatsListener>>
    /\ afterStreamExecutedCallback = <<>>
    /\ invoked = <<>>
    /\ generation = 0
    /\ onNext = [s \in Subscriptions |-> Idle]
    /\ notified = [evicting |-> 0, other |-> 0]
    /\ transportCalls = 0
    /\ documentsById = EmptyMap
    /\ includedDocumentsById = {}
    /\ knownMissingIds = {}
    /\ numberOfRequests = 0
    /\ calls = 0
    /\ maxCalls = bound
    /\ fieldNames = fields
    /\ last = NoCall

InitWithBound(c, bound) == InitWithFields(c, bound, FieldNames)

InitWith(c) == InitWithBound(c, MaxCalls)

Init == \E c \in Constructions : InitWith(c)

\* one call on the builder: r is the builder the call leaves, c describes the
\* call.  A call that panicked unwinds the caller: no call follows it.
Step(r, c, bound) ==
    /\ calls < bound
    /\ last.panic = ""
    /\ queryRaw' = r.queryRaw
    /\ defaultOperator' = r.defaultOperator
    /\ negate' = r.negate
    /\ currentClauseDepth' = r.currentClauseDepth
    /\ queryParameters' = r.queryParameters
    /\ isIntersect' = r.isIntersect
    /\ isGroupBy' = r.isGroupBy
    /\ isInMoreLikeThis' = r.isInMoreLikeThis
    /\ pageSize' = r.pageSize
    /\ start' = r.start
    /\ disableCaching' = r.disableCaching
    /\ declareToken' = r.declareToken
    /\ fromToken' = r.fromToken
    /\ loadTokens' = r.loadTokens
    /\ selectTokens' = r.selectTokens
    /\ whereTokens' = r.whereTokens
    /\ groupByTokens' = r.groupByTokens
    /\ orderByTokens' = r.orderByTokens
    /\ includes' = r.includes
    /\ queryOperation' = r.queryOperation
    /\ clazz' = r.clazz
    /\ theWaitForNonStaleResults' = r.theWaitForNonStaleResults
    /\ timeout' = r.timeout
    /\ queryOperationsCreated' = r.queryOperationsCreated
    /\ pendingLazyOperations' = r.pendingLazyOperations
    /\ queryStats' = r.queryStats
    /\ afterQueryExecuted' = r.afterQueryExecuted
    /\ beforeQueryExecutedCallback' = r.beforeQueryExecutedCallback
    /\ afterQueryExecutedCallback' = r.afterQueryExecutedCallback
    /\ afterStreamExecutedCallback' = r.afterStreamExecutedCallback
    /\ invoked' = r.invoked
    /\ UNCHANGED <<generation, onNext, notified>>
    /\ transportCalls' = r.transportCalls
    /\ UNCHANGED <<documentsById, includedDocumentsById, knownMissingIds,
                   numberOfRequests>>
    /\ calls' = calls + 1
    /\ maxCalls' = maxCalls
    /\ fieldNames' = fieldNames
    /\ last' = [c EXCEPT !.panic = r.panic, !.err = r.err, !.ret = r.ret,
                         !.prevOp = last.op, !.prevRet = last.ret]

Do(r, c) == Step(r, c, maxCalls)

\* one call on the session: r is the session the call leaves
SessionStep(r, c) ==
    /\ calls < MaxLoads
    /\ last.panic = ""
    /\ documentsById' = r.documentsById
    /\ includedDocumentsById' = r.includedDocumentsById
    /\ knownMissingIds' = r.knownMissingIds
    /\ numberOfRequests' = r.numberOfRequests
    /\ transportCalls' = r.transportCalls
    /\ UNCHANGED <<queryRaw, defaultOperator, negate, currentClauseDepth,
                   queryParameters, isIntersect, isGroupBy, isInMoreLikeThis, pageSize,
                   start, disableCaching, declareToken, fromToken, loadTokens,
                   selectTokens, whereTokens, groupByTokens, orderByTokens, includes,
                   queryOperation, clazz, theWaitForNonStaleResults, timeout,
                   queryOperationsCreated, pendingLazyOperations, queryStats,
                   afterQueryExecuted, beforeQueryExecutedCallback,
                   afterQueryExecutedCallback, afterStreamExecutedCallback, invoked,
                   generation, onNext, notified>>
    /\ calls' = calls + 1
    /\ maxCalls' = maxCalls
    /\ fieldNames' = fieldNames
    /\ last' = [c EXCEPT !.panic = r.panic, !.err = r.err, !.ret = r.ret,
                         !.log = r.log, !.request = r.request,
                         !.prevOp = last.op, !.prevRet = last.ret]

Call(op) == [NoCall EXCEPT !.op = op]

\* ------------------------------------------------------------------ actions
DoWhereExists == \E f \in fieldNames : Do(whereExists(Q, f), [Call("whereExists") EXCEPT !.field = f])
DoWhereTrue == Do(whereTrue(Q), Call("whereTrue"))
DoWhereLucene == \E f \in fieldNames : Do(whereLucene(Q, f, "v1"), [Call("whereLucene") EXCEPT !.field = f])
DoWhereEquals ==
    \E f \in fieldNames, v \in WhereValues :
        Do(whereEquals(Q, f, v), [Call("whereEquals") EXCEPT !.field = f, !.value = v])
DoWhereNotEquals ==
    \E f \in fieldNames, v \in WhereValues :
        Do(whereNotEquals(Q, f, v), [Call("whereNotEquals") EXCEPT !.field = f, !.value = v])
DoWhereIn == \E f \in fieldNames : Do(whereIn(Q, f, "[v1 v2]"), [Call("whereIn") EXCEPT !.field = f])
DoWhereBetween ==
    \E f \in fieldNames, s \in {"nil", "v1"}, e \in {"nil", "v2"} :
        Do(whereBetween(Q, f, s, e),
           [Call("whereBetween") EXCEPT !.field = f, !.value = s, !.name = <<e>>])
DoSearch == \E f \in fieldNames : Do(search(Q, f, "v1"), [Call("search") EXCEPT !.field = f])
DoOpenSubclause == Do(openSubclause(Q), Call("openSubclause"))
DoCloseSubclause == Do(closeSubclause(Q), Call("closeSubclause"))
DoAndAlso == Do(andAlso(Q), Call("andAlso"))
DoOrElse == Do(orElse(Q), Call("orElse"))
DoNegateNext == Do(NegateNext(Q), Call("NegateNext"))
DoIntersect == Do(intersect(Q), Call("intersect"))
DoMoreLikeThis == Do(moreLikeThis(Q), Call("moreLikeThis"))
DoDispose == isInMoreLikeThis /\ Do(onDispose(Q), Call("onDispose"))
DoUsingDefaultOperator ==
    \E o \in {"AND", "OR"} :
        Do(usingDefaultOperator(Q, o), [Call("usingDefaultOperator") EXCEPT !.value = o])

NextWhere ==
    \/ DoWhereExists \/ DoWhereTrue \/ DoWhereLucene \/ DoWhereEquals \/ DoWhereNotEquals
    \/ DoWhereIn \/ DoWhereBetween \/ DoSearch \/ DoOpenSubclause \/ DoCloseSubclause
    \/ DoAndAlso \/ DoOrElse \/ DoNegateNext \/ DoIntersect \/ DoMoreLikeThis
    \/ DoDispose \/ DoUsingDefaultOperator

\* building the where clause of a builder
Spec == Init /\ [][NextWhere]_vars

NextChain ==
    \/ DoWhereExists \/ DoWhereTrue \/ DoWhereLucene \/ DoWhereEquals \/ DoWhereIn
    \/ DoAndAlso \/ DoOrElse \/ DoNegateNext

\* predicates chained with explicit operators and negations
SpecChain == (\E c \in Constructions : InitWithBound(c, MaxChain)) /\ [][NextChain]_vars

DoBoost == \E b \in {0, 1, 2} : Do(boost(Q, b), [Call("boost") EXCEPT !.n = b])
DoFuzzy == \E d \in {1, 2} : Do(fuzzy(Q, d), [Call("fuzzy") EXCEPT !.n = d])
DoProximity == \E d \in {0, 2} : Do(proximity(Q, d), [Call("proximity") EXCEPT !.n = d])

NextScope ==
    \/ DoMoreLikeThis \/ DoDispose \/ DoWhereExists \/ DoWhereLucene \/ DoWhereEquals
    \/ DoSearch \/ DoAndAlso \/ DoOrElse \/ DoNegateNext \/ DoOpenSubclause
    \/ DoBoost \/ DoFuzzy \/ DoProximity

\* predicates and their options inside and outside a moreLikeThis scope
SpecScope == (\E c \in Constructions : InitWithBound(c, MaxChain)) /\ [][NextScope]_vars


DoTake == \E n \in 1..MaxPage : Do(take(Q, <<n>>), [Call("take") EXCEPT !.n = n])
DoSkip == \E n \in 1..2 : Do(skip(Q, n), [Call("skip") EXCEPT !.n = n])
DoDistinct == Do(distinct(Q), Call("distinct"))
\* the responses of the transport to a call that leaves the builder as r: the
\* transport answers only when it is asked
ResponsesTo(r) ==
    IF r.transportCalls = transportCalls THEN {[err |-> "", results |-> <<>>]}
    ELSE QueryResponses
AnyResponse == CHOOSE r \in QueryResponses : TRUE
Exec(op, resp) == [Call(op) EXCEPT !.transport = resp.err]

DoCount ==
    \E resp \in ResponsesTo(Count(Q, AnyResponse)) :
        Do(Count(Q, resp), Exec("Count", resp))
DoAny ==
    \E resp \in ResponsesTo(Any(Q, AnyResponse)) :
        Do(Any(Q, resp), Exec("Any", resp))
DoCountLazily == Do(CountLazily(Q), Call("CountLazily"))
DoGetResults ==
    \E resp \in ResponsesTo(GetResults(Q, AnyResponse)) :
        Do(GetResults(Q, resp), Exec("GetResults", resp))

NextPage ==
    \/ DoTake \/ DoSkip \/ DoDistinct \/ DoCount \/ DoAny \/ DoCountLazily
    \/ DoGetResults \/ DoOpenSubclause

\* paging and the execution entry points
SpecPage == Init /\ [][NextPage]_vars

\* names handed to addParameter, as sequences of characters
ParamNames == {<<"p", "0">>, <<"p", "1">>, <<"$", "p", "1">>, <<"x">>, <<"$", "x">>}

DoAddQueryParameter ==
    \E v \in ParamValues :
        Do(addQueryParameter(Q, v), [Call("addQueryParameter") EXCEPT !.value = v])
DoAddParameter ==
    \E nm \in ParamNames, v \in ParamValues :
        Do(addParameter(Q, nm, v), [Call("addParameter") EXCEPT !.name = nm, !.value = v])

NextParams == DoAddQueryParameter \/ DoAddParameter \/ DoWhereEquals

\* binding query parameters
SpecParams == Init /\ [][NextParams]_vars

\* the values of a range comparison: nil, the empty string and a time.Duration
RangeValues == {"nil", ""} \cup Durations

DoWhereGreaterThan ==
    \E f \in fieldNames, v \in RangeValues :
        Do(whereGreaterThan(Q, f, v), [Call("whereGreaterThan") EXCEPT !.field = f, !.value = v])
DoWhereGreaterThanOrEqual ==
    \E f \in fieldNames, v \in RangeValues :
        Do(whereGreaterThanOrEqual(Q, f, v),
           [Call("whereGreaterThanOrEqual") EXCEPT !.field = f, !.value = v])
DoWhereLessThan ==
    \E f \in fieldNames, v \in RangeValues :
        Do(whereLessThan(Q, f, v), [Call("whereLessThan") EXCEPT !.field = f, !.value = v])
DoWhereLessThanOrEqual ==
    \E f \in fieldNames, v \in RangeValues :
        Do(whereLessThanOrEqual(Q, f, v),
           [Call("whereLessThanOrEqual") EXCEPT !.field = f, !.value = v])

NextRange ==
    \/ DoWhereGreaterThan \/ DoWhereGreaterThanOrEqual \/ DoWhereLessThan
    \/ DoWhereLessThanOrEqual \/ DoWhereBetween

\* range predicates and the parameters they bind
SpecRange == Init /\ [][NextRange]_vars

DoOrderBy == \E f \in fieldNames : Do(orderBy(Q, f), [Call("orderBy") EXCEPT !.field = f])
DoRandomOrdering == Do(randomOrdering(Q), Call("randomOrdering"))
DoGroupBy == \E f \in fieldNames : Do(groupBy(Q, f), [Call("groupBy") EXCEPT !.field = f])

DoWhereRegex ==
    \E f \in fieldNames : Do(whereRegex(Q, f, "v1"), [Call("whereRegex") EXCEPT !.field = f])

\* field names of a caller that also uses the identity property
IdentityFieldNames == FieldNames \cup {documentConventionsIdentityPropertyName}

NextFields ==
    \/ DoWhereExists \/ DoWhereLucene \/ DoWhereEquals \/ DoWhereNotEquals \/ DoWhereIn
    \/ DoWhereBetween \/ DoSearch \/ DoWhereGreaterThan \/ DoWhereGreaterThanOrEqual
    \/ DoWhereLessThan \/ DoWhereLessThanOrEqual \/ DoWhereRegex \/ DoOrderBy
    \/ DoGroupBy

\* the mutators that take a field name, called with the identity property too
SpecFields ==
    /\ \E c \in Constructions : InitWithFields(c, MaxFieldCalls, IdentityFieldNames)
    /\ [][NextFields]_vars
DoGroupByCount == Do(groupByCount(Q, "count"), Call("groupByCount"))
DoAggregateUsing == Do(aggregateUsing(Q, "facets/1"), Call("aggregateUsing"))
DoInclude == \E i \in IncludePaths : Do(include(Q, i), [Call("include") EXCEPT !.name = i])
DoString == Step(String(Q), Call("String"), maxCalls + MaxRenders)

\* a term, a list of terms with options, a suggestion of another type, and nil
Suggestions ==
    {<<>>,
     <<[type |-> "SuggestionWithTerm", field |-> "name", term |-> "v1", options |-> <<>>]>>,
     <<[type |-> "SuggestionWithTerms", field |-> "name", term |-> "[v1 v2]",
        options |-> <<"options">>]>>,
     <<[type |-> "SuggestionBase", field |-> "name", term |-> "v1", options |-> <<>>]>>}

DoGroupByKey == Do(groupByKey(Q, "name", "key"), Call("groupByKey"))
DoGroupBySum == Do(groupBySum(Q, "age", "sum"), Call("groupBySum"))
DoUpdateFieldsToFetchToken ==
    \E f \in {"name", "age"} :
        Do(updateFieldsToFetchToken(Q, SelTok("fieldsToFetch", f)),
           [Call("updateFieldsToFetchToken") EXCEPT !.field = f])
DoAggregateBy == Do(aggregateBy(Q, "facet"), Call("aggregateBy"))
DoSuggestUsing ==
    \E s \in Suggestions :
        Do(suggestUsing(Q, s), [Call("suggestUsing") EXCEPT !.name = s])

NextSelect ==
    \/ DoDistinct \/ DoGroupByKey \/ DoGroupBySum \/ DoGroupByCount
    \/ DoUpdateFieldsToFetchToken \/ DoAggregateBy \/ DoAggregateUsing \/ DoSuggestUsing
    \/ DoWhereExists \/ DoOrderBy \/ DoString

\* the select clause and the clauses a suggestion excludes
SpecSelect == Init /\ [][NextSelect]_vars

\* the structured mutators
StructuredMutators ==
    {"whereExists", "whereTrue", "whereLucene", "whereEquals", "whereNotEquals",
     "whereIn", "whereBetween", "search", "openSubclause", "closeSubclause", "andAlso",
     "orElse", "intersect", "moreLikeThis", "distinct", "orderBy", "randomOrdering",
     "groupBy", "groupByCount", "aggregateUsing"}

NextMutators ==
    \/ DoWhereExists \/ DoWhereTrue \/ DoWhereLucene \/ DoWhereEquals \/ DoWhereNotEquals
    \/ DoWhereIn \/ DoWhereBetween \/ DoSearch \/ DoOpenSubclause \/ DoCloseSubclause
    \/ DoAndAlso \/ DoOrElse \/ DoIntersect \/ DoMoreLikeThis \/ DoDistinct \/ DoOrderBy
    \/ DoRandomOrdering \/ DoGroupBy \/ DoGroupByCount \/ DoAggregateUsing

\* the structured mutators on builders with and without raw query text
SpecMutators == Init /\ [][NextMutators]_vars

NextRender ==
    \/ DoString \/ DoInclude \/ DoWhereExists \/ DoWhereEquals \/ DoOpenSubclause
    \/ DoCloseSubclause \/ DoOrderBy \/ DoGroupBy \/ DoDistinct \/ DoGroupByCount

\* building all clauses and rendering the query text
SpecRender == Init /\ [][NextRender]_vars

DoGetQueryResult ==
    \E resp \in ResponsesTo(GetQueryResult(Q, AnyResponse)) :
        Do(GetQueryResult(Q, resp), Exec("GetQueryResult", resp))
DoFirst ==
    \E resp \in ResponsesTo(First(Q, AnyResponse)) :
        Do(First(Q, resp), Exec("First", resp))
DoSingle ==
    \E resp \in ResponsesTo(Single(Q, AnyResponse)) :
        Do(Single(Q, resp), Exec("Single", resp))
DoLazily == Do(Lazily(Q), Call("Lazily"))
DoExecuteAllPendingLazyOperations ==
    \E resp \in ResponsesTo(executeAllPendingLazyOperations(Q, AnyResponse)) :
        Do(executeAllPendingLazyOperations(Q, resp),
           Exec("executeAllPendingLazyOperations", resp))

NextLazy ==
    \/ DoLazily \/ DoCountLazily \/ DoExecuteAllPendingLazyOperations \/ DoTake
    \/ DoOpenSubclause

\* lazy operations and the flush of the session
SpecLazy == Init /\ [][NextLazy]_vars

NextExec ==
    \/ DoGetQueryResult \/ DoGetResults \/ DoFirst \/ DoSingle \/ DoCount \/ DoAny
    \/ DoLazily \/ DoCountLazily
    \/ DoOpenSubclause \/ DoCloseSubclause \/ DoDistinct

\* the execution entry points on builders with balanced and unbalanced
\* subclauses
SpecExec == Init /\ [][NextExec]_vars

\* ------------------------------------------------------------ listeners
Listeners == {"f", "g"}
ListenerHandles == {0, 1}

DoAddBeforeQueryExecutedListener ==
    \E a \in Listeners :
        Do(addBeforeQueryExecutedListener(Q, a),
           [Call("addBeforeQueryExecutedListener") EXCEPT !.value = a])
DoRemoveBeforeQueryExecutedListener ==
    \E idx \in ListenerHandles :
        Do(removeBeforeQueryExecutedListener(Q, idx),
           [Call("removeBeforeQueryExecutedListener") EXCEPT !.n = idx])
DoAddAfterQueryExecutedListener ==
    \E a \in Listeners :
        Do(addAfterQueryExecutedListener(Q, a),
           [Call("addAfterQueryExecutedListener") EXCEPT !.value = a])
DoRemoveAfterQueryExecutedListener ==
    \E idx \in ListenerHandles :
        Do(removeAfterQueryExecutedListener(Q, idx),
           [Call("removeAfterQueryExecutedListener") EXCEPT !.n = idx])
DoAddAfterStreamExecutedListener ==
    \E a \in Listeners :
        Do(addAfterStreamExecutedListener(Q, a),
           [Call("addAfterStreamExecutedListener") EXCEPT !.value = a])
DoRemoveAfterStreamExecutedListener ==
    \E idx \in ListenerHandles :
        Do(removeAfterStreamExecutedListener(Q, idx),
           [Call("removeAfterStreamExecutedListener") EXCEPT !.n = idx])
DoInvokeAfterStreamExecuted ==
    Do(invokeAfterStreamExecuted(Q, <<>>), Call("invokeAfterStreamExecuted"))
DoGetIndexQuery == Do(GetIndexQuery(Q), Call("GetIndexQuery"))

NextListeners ==
    \/ DoAddBeforeQueryExecutedListener \/ DoRemoveBeforeQueryExecutedListener
    \/ DoAddAfterQueryExecutedListener \/ DoRemoveAfterQueryExecutedListener
    \/ DoAddAfterStreamExecutedListener \/ DoRemoveAfterStreamExecutedListener
    \/ DoInvokeAfterStreamExecuted \/ DoGetIndexQuery \/ DoGetQueryResult

\* registering, removing and invoking the listeners of a builder
SpecListeners ==
    /\ \E c \in {d \in Constructions : d.queryRaw = "" /\ d.clazz} :
           InitWithBound(c, MaxListenerCalls)
    /\ [][NextListeners]_vars

\* the builder and the session: everything but the cache and its subscriptions
builderVars ==
    <<queryRaw, defaultOperator, negate, currentClauseDepth, queryParameters,
      isIntersect, isGroupBy, isInMoreLikeThis, pageSize, start, disableCaching,
      declareToken, fromToken, loadTokens, selectTokens, whereTokens, groupByTokens,
      orderByTokens, includes, queryOperation, clazz, theWaitForNonStaleResults,
      timeout, queryOperationsCreated, pendingLazyOperations, queryStats,
      afterQueryExecuted, fieldNames, beforeQueryExecutedCallback,
      afterQueryExecutedCallback, afterStreamExecutedCallback, invoked,
      transportCalls, documentsById, includedDocumentsById, knownMissingIds,
      numberOfRequests, calls, maxCalls, last>>

DoOnNextBegin ==
    \E s \in Subscriptions, value \in ChangeValues :
        OnNextBegin(s, value) /\ UNCHANGED builderVars
DoOnNextIncrement ==
    \E s \in Subscriptions : OnNextIncrement(s) /\ UNCHANGED builderVars

NextTake ==
    \/ DoTake \/ DoDistinct \/ DoFirst \/ DoSingle \/ DoAny \/ DoCount

\* page sizes set by the caller and by the execution entry points
SpecTake == Init /\ [][NextTake]_vars

\* timeouts handed to waitForNonStaleResults, in seconds; 0 asks for the default
WaitTimeouts == {0, 5}

DoNoCaching == Do(noCaching(Q), Call("noCaching"))

NextCache ==
    \/ DoOnNextBegin \/ DoOnNextIncrement \/ DoNoCaching \/ DoGetQueryResult

\* notifications of the two subscriptions delivered while a builder is used
SpecCache ==
    /\ \E c \in {d \in Constructions : d.queryRaw = "" /\ d.clazz} :
           InitWithBound(c, MaxCacheCalls)
    /\ [][NextCache]_vars

DoWaitForNonStaleResults ==
    \E t \in WaitTimeouts :
        Do(waitForNonStaleResults(Q, t), [Call("waitForNonStaleResults") EXCEPT !.n = t])

NextCompiled ==
    \/ DoGetResults \/ DoLazily \/ DoSkip \/ DoTake \/ DoWhereEquals \/ DoNoCaching
    \/ DoWaitForNonStaleResults

\* mutators before and after the query operation is created
SpecCompiled == Init /\ [][NextCompiled]_vars

\* id lists handed to a load of several ids
IdLists ==
    {<<>>, <<"">>, <<"users/1">>, <<"users/2", "users/1">>, <<"Users/1", "users/1">>,
     <<"users/1", "Users/1", "users/2">>, <<"users/2", "", "users/2">>}

\* the answers of the transport to a call: it answers only when it is asked
LoadResponsesTo(s) ==
    IF s.transportCalls = transportCalls
    THEN {[err |-> "", serverDocs |-> {}, nilInterface |-> FALSE]}
    ELSE LoadResponses

DoLoad ==
    \E id \in Ids :
        \E resp \in LoadResponsesTo(load(S, id, CHOOSE r \in LoadResponses : TRUE)) :
            SessionStep(load(S, id, resp),
                        [Call("load") EXCEPT !.value = id, !.transport = resp.err,
                                             !.response = resp.serverDocs])
DoLoadInternal ==
    \E ids \in IdLists, incl \in IncludePathsOfLoad :
        \E resp \in LoadResponsesTo(
                        loadInternal(S, ids, incl, CHOOSE r \in LoadResponses : TRUE)) :
            SessionStep(loadInternal(S, ids, incl, resp),
                        [Call("loadInternal") EXCEPT !.ids = ids, !.name = incl,
                                                     !.transport = resp.err,
                                                     !.response = resp.serverDocs])

NextLoad == DoLoad \/ DoLoadInternal

\* loading documents into a session
SpecLoad == InitWith(CHOOSE c \in Constructions : c.queryRaw # "") /\ [][NextLoad]_vars

\* ------------------------------------------------------------ observations
\* the where-token list the next predicate mutator targets
CurrentWhereTokens == Deref(Q, RefOf(Q))

\* the top-level where-token list and the lists owned by moreLikeThis tokens
AllWhereLists ==
    {whereTokens} \cup {whereTokens[i].whereTokens : i \in 1..Len(whereTokens)}

\* a call named op has just returned normally
Returned(op) == last.op = op /\ last.panic = ""

\* this step is a call of op that returns normally
Calls(op) == calls' = calls + 1 /\ last'.op = op /\ last'.panic = ""

ExistsToken(f) == createWhereToken("exists", f, <<>>)

\* ------------------------------------------------------------------ claims

\* C1: on a builder whose current where-token list is empty or ends with an
\* open-subclause marker, NegateNext() followed by whereExists(f) leaves the
\* list ending in [exists(f), AND, Negate, exists(f)], so that the Negate marker
\* always has a predicate before it.
C1_NegationGuardSynthesized ==
    [][(/\ negate
        /\ Calls("whereExists")
        /\ (Len(CurrentWhereTokens) = 0 \/ Last(CurrentWhereTokens).kind = "open"))
       => CurrentWhereTokens' =
              CurrentWhereTokens \o <<ExistsToken(last'.field), queryOperatorTokenAnd,
                                      negateTokenInstance, ExistsToken(last'.field)>>]_vars


\* C2: when an explicit page size n > 0 was set with take(n), a count-only or
\* any-only operation (Count, Any on a non-distinct query, CountLazily) leaves
\* the effective page size of the builder at n.
C2_CountKeepsExplicitPageSize ==
    [][(/\ pageSize # <<>>
        /\ pageSize[1] > 0
        /\ \/ Calls("Count")
           \/ Calls("CountLazily")
           \/ Calls("Any") /\ ~isDistinct(Q))
       => pageSize' = pageSize]_vars


\* C3: every name returned by addQueryParameter is fresh: when it is generated
\* it is not bound in the parameter map, whatever addQueryParameter and
\* addParameter calls came before, so no binding is overwritten.
C3_GeneratedNameIsFresh ==
    [][Calls("addQueryParameter") => last'.ret \notin DOMAIN queryParameters]_vars

\* a name without its leading "$"
WithoutDollar(name) == IF name[1] = "$" THEN SubSeq(name, 2, Len(name)) ELSE name

\* C4: addParameter(name, value) with a name already bound (a leading "$" is
\* ignored) fails with a construction error and leaves the parameter map
\* unchanged; with an unbound name it adds exactly that one binding.
C4_AddParameter ==
    [][(calls' = calls + 1 /\ last'.op = "addParameter")
       => LET name == WithoutDollar(last'.name)
          IN IF name \in DOMAIN queryParameters
             THEN last'.panic # "" /\ queryParameters' = queryParameters
             ELSE /\ last'.panic = ""
                  /\ DOMAIN queryParameters' = DOMAIN queryParameters \cup {name}
                  /\ queryParameters'[name] = last'.value
                  /\ \A k \in DOMAIN queryParameters :
                         queryParameters'[k] = queryParameters[k]]_vars

\* addParameter("$x", ...) was rejected because x is bound
C4_Witness ==
    /\ last.op = "addParameter"
    /\ last.panic # ""
    /\ last.name = <<"$", "x">>
    /\ <<"x">> \in DOMAIN queryParameters


\* a token that ends a predicate, and a token that starts one
EndsPredicate(tok) == tok.kind \in {"where", "true", "close", "moreLikeThis"}
StartsPredicate(tok) == tok.kind \in {"where", "true", "open", "negate", "moreLikeThis"}

\* C5: in every where-token list, two consecutive predicates at the same
\* nesting level are separated by exactly one operator token: a predicate never
\* directly follows a predicate, and an operator never directly follows an
\* operator.
C5_OneOperatorBetweenPredicates ==
    \A tokens \in AllWhereLists :
        \A i \in 2..Len(tokens) :
            /\ ~(EndsPredicate(tokens[i - 1]) /\ StartsPredicate(tokens[i]))
            /\ ~(tokens[i - 1].kind = "operator" /\ tokens[i].kind = "operator")

\* C6: a whereEquals call that directly follows a whereEquals call, with no
\* explicit operator in between, appends the default operator token and one
\* where token: AND under the initial setting, OR after usingDefaultOperator(OR).
\* The default operator is the one given to the last usingDefaultOperator call,
\* which is accepted only while there is no where token.
C6_DefaultOperatorBetweenEquals ==
    [][/\ (Returned("whereEquals") /\ Calls("whereEquals"))
          => LET old == CurrentWhereTokens
                 new == CurrentWhereTokens'
             IN /\ Len(new) = Len(old) + 2
                /\ SubSeq(new, 1, Len(old)) = old
                /\ Last(old).kind = "where"
                /\ new[Len(old) + 1] = (IF defaultOperator = "AND"
                                        THEN queryOperatorTokenAnd
                                        ELSE queryOperatorTokenOr)
                /\ whereTokenWriteTo(new[Len(old) + 1])
                       = (IF defaultOperator = "AND" THEN <<"and">> ELSE <<"or">>)
                /\ Last(new).kind = "where"
       /\ IF Calls("usingDefaultOperator")
          THEN defaultOperator' = last'.value /\ Len(whereTokens) = 0
          ELSE defaultOperator' = defaultOperator]_vars

\* usingDefaultOperator(OR), whereEquals, whereEquals gave [where, OR, where]
C6_Witness ==
    /\ Returned("whereEquals")
    /\ last.prevOp = "whereEquals"
    /\ defaultOperator = "OR"
    /\ Len(whereTokens) = 3
    /\ whereTokens[2] = queryOperatorTokenOr

\* C7: once raw query text is set, every structured mutator call fails at the
\* call site with a construction error.
C7_RawRejectsStructuredMutators ==
    (queryRaw # "" /\ last.op \in StructuredMutators) => last.panic # ""

RECURSIVE CountKind(_, _)
CountKind(tokens, kind) ==
    IF Len(tokens) = 0 THEN 0
    ELSE (IF Head(tokens).kind = kind THEN 1 ELSE 0) + CountKind(Tail(tokens), kind)
         + CountKind(Head(tokens).whereTokens, kind)

\* C8: for a builder without raw query text, String() fails with a
\* construction error and produces no text whenever the number of
\* openSubclause calls differs from the number of closeSubclause calls.  Every
\* such call has left its marker in the where tokens, and the subclause depth
\* counter is the number of open markers less the number of close markers.
C8_UnbalancedSubclausesFailToRender ==
    [][/\ (/\ calls' = calls + 1
           /\ last'.op = "String"
           /\ queryRaw = ""
           /\ CountKind(whereTokens, "open") # CountKind(whereTokens, "close"))
          => last'.panic # "" /\ last'.ret = <<>>
       /\ queryRaw = ""
          => /\ currentClauseDepth' = CountKind(whereTokens', "open")
                                      - CountKind(whereTokens', "close")
             /\ CountKind(whereTokens', "open") - CountKind(whereTokens, "open")
                    = (IF Calls("openSubclause") THEN 1 ELSE 0)
             /\ CountKind(whereTokens', "close") - CountKind(whereTokens, "close")
                    = (IF Calls("closeSubclause") THEN 1 ELSE 0)]_vars

\* String() was rejected on a builder with a close and no open
C8_Witness ==
    /\ last.op = "String"
    /\ last.panic # ""
    /\ queryRaw = ""
    /\ CountKind(whereTokens, "close") > CountKind(whereTokens, "open")

\* the places of piece k in text
Places(text, k) == {i \in 1..Len(text) : text[i] = k}

\* the clause keywords of text come in the order of ks, each at most once
RECURSIVE InOrder(_, _, _)
InOrder(text, ks, from) ==
    IF Len(ks) = 0 THEN TRUE
    ELSE LET at == Places(text, Head(ks))
         IN IF at = {} THEN InOrder(text, Tail(ks), from)
            ELSE /\ Cardinality(at) = 1
                 /\ \A i \in at : i > from /\ InOrder(text, Tail(ks), i)

ClauseKeywords ==
    <<"declare ", "from ", "from index ", " group by ", " where ", " order by ",
      " load ", " select ", " include ">>

\* C9: for a builder without raw text whose subclause depth is zero, String()
\* returns normally, the clauses come in the order declare, from, group by,
\* where, order by, load, select, include, and each of group by, where, order
\* by, load, select and include is there iff its token list is not empty.
C9_ClausesInFixedOrder ==
    [][(/\ calls' = calls + 1
        /\ last'.op = "String"
        /\ queryRaw = ""
        /\ currentClauseDepth = 0)
       => LET text == last'.ret
          IN /\ last'.panic = ""
             /\ InOrder(text, ClauseKeywords, 0)
             /\ Places(text, "from ") \cup Places(text, "from index ") # {}
             /\ (Places(text, " group by ") # {} <=> Len(groupByTokens) # 0)
             /\ (Places(text, " where ") # {} <=> Len(whereTokens) # 0)
             /\ (Places(text, " order by ") # {} <=> Len(orderByTokens) # 0)
             /\ (Places(text, " load ") # {} <=> Len(loadTokens) # 0)
             /\ (Places(text, " select ") # {} <=> Len(selectTokens) # 0)
             /\ (Places(text, " include ") # {} <=> Len(includes) # 0)]_vars

\* C10: String() called twice with no call in between returns the same query
\* text both times, and leaves the parameter map as it was.
C10_RenderTwiceSameText ==
    [][(Returned("String") /\ Calls("String"))
       => last'.ret = last.ret /\ queryParameters' = queryParameters]_vars

\* rendered twice, with an include given twice before
C10_Witness ==
    /\ Returned("String")
    /\ last.prevOp = "String"
    /\ queryRaw = ""
    /\ Len(includes) = 1
    /\ calls = 4

\* C11: the ids a load of an id list puts into the outgoing request contain no
\* empty id, no two ids that are equal ignoring case and no id the session
\* reports as loaded or deleted, and all of them are ids of the list;
\* ["users/1", "Users/1", "users/2"] on a session that tracks nothing gives
\* exactly two outbound ids.
C11_OutboundIdsDeduplicated ==
    [][Calls("loadInternal")
       => /\ last'.request # <<>>
             => LET out == last'.request[1].ids
                IN /\ \A i \in 1..Len(out) :
                          /\ out[i] # ""
                          /\ ~IsLoadedOrDeleted(S, out[i])
                          /\ \E k \in 1..Len(last'.ids) : last'.ids[k] = out[i]
                          /\ \A j \in 1..Len(out) :
                                 i # j => ToLower(out[i]) # ToLower(out[j])
          /\ (/\ last'.ids = <<"users/1", "Users/1", "users/2">>
              /\ DOMAIN documentsById = {}
              /\ includedDocumentsById = {}
              /\ knownMissingIds = {})
             => last'.request # <<>> /\ Len(last'.request[1].ids) = 2]_vars

\* with users/1 loaded, ["users/1", "Users/1", "users/2"] asked for users/2 only
C11_Witness ==
    /\ Returned("loadInternal")
    /\ last.ids = <<"users/1", "Users/1", "users/2">>
    /\ last.request # <<>>
    /\ last.request[1].ids = <<"users/2">>

\* C12: when every id a load asks for is loaded or known to be deleted, the
\* operation creates no request: the request counter keeps its value and the
\* transport is not invoked.
C12_AllKnownNoRequest ==
    [][/\ Calls("load") \/ Calls("loadInternal")
       /\ \A id \in DocIds \cup {" "} :
              (\/ last'.op = "load" /\ last'.value = id
               \/ last'.op = "loadInternal"
                    /\ \E k \in 1..Len(last'.ids) : last'.ids[k] = id)
                 => IsLoadedOrDeleted(S, id)
       => /\ last'.request = <<>>
          /\ numberOfRequests' = numberOfRequests
          /\ transportCalls' = transportCalls]_vars

\* users/2 and users/1 are asked for again after both were loaded
C12_Witness ==
    /\ Returned("loadInternal")
    /\ last.ids = <<"users/2", "users/1">>
    /\ {"users/1", "users/2"} \subseteq DOMAIN documentsById
    /\ last.request = <<>>
    /\ numberOfRequests = 1
    /\ transportCalls = 1

\* C13: a load of an empty or a blank id is a no-op: the result is absent, the
\* transport is not invoked, the identity map and the request counter keep
\* their values.
C13_BlankIdIsNoOp ==
    [][(last'.op = "load" /\ last'.value \in {"", " "})
       => /\ last'.panic = ""
          /\ last'.ret = <<>>
          /\ last'.request = <<>>
          /\ transportCalls' = transportCalls
          /\ numberOfRequests' = numberOfRequests
          /\ documentsById' = documentsById
          /\ includedDocumentsById' = includedDocumentsById
          /\ knownMissingIds' = knownMissingIds]_vars

\* the non-null documents of results, in their order
NonNull(results) == SelectSeq(results, LAMBDA d : d # <<>>)

\* C14: when a load gets a response, setResult registers the includes first,
\* then adds every non-null primary document to the identity map in the order
\* of the results, then registers the missing includes; a nil response changes
\* nothing.
C14_SetResultOrder ==
    [][/\ (/\ Calls("load") \/ Calls("loadInternal")
           /\ last'.request # <<>>
           /\ last'.transport = "")
          => LET result == GetDocumentsResult(last'.request[1], last'.response)
                 docs == NonNull(result.results)
             IN /\ last'.log =
                      <<<<"registerIncludes">>>>
                      \o [i \in 1..Len(docs) |-> <<"documentsById.add", docs[i][1]>>]
                      \o <<<<"registerMissingIncludes">>>>
                /\ \A i \in 1..Len(docs) : docs[i][1] \in DOMAIN documentsById'
                /\ result.includes \subseteq
                       includedDocumentsById' \cup DOMAIN documentsById'
       /\ (/\ Calls("load")
           /\ last'.request # <<>>
           /\ last'.transport # "")
          => /\ last'.log = <<>>
             /\ documentsById' = documentsById
             /\ includedDocumentsById' = includedDocumentsById
             /\ knownMissingIds' = knownMissingIds]_vars

\* users/2 and users/1 came back together with includes asked for
C14_Witness ==
    /\ Returned("loadInternal")
    /\ last.name = <<"friend">>
    /\ last.log = << <<"registerIncludes">>, <<"documentsById.add", "users/2">>,
                     <<"documentsById.add", "users/1">>,
                     <<"registerMissingIncludes">> >>
    /\ {"users/1", "users/2"} \subseteq DOMAIN documentsById

\* C18: when the transport fails during DocumentSession.load, the call ends
\* with exactly the error the transport reported, and no result is folded into
\* the identity map.
C18_LoadSurfacesTransportError ==
    [][(/\ calls' = calls + 1
        /\ last'.op = "load"
        /\ last'.request # <<>>
        /\ last'.transport # "")
       => /\ last'.panic = ""
          /\ last'.err = last'.transport
          /\ documentsById' = documentsById
          /\ includedDocumentsById' = includedDocumentsById
          /\ knownMissingIds' = knownMissingIds]_vars

\* the execution entry points
ExecutionCalls ==
    {"GetQueryResult", "GetResults", "First", "Single", "Count", "Any", "Lazily",
     "CountLazily"}

C16_UnbalancedNeverSent ==
    [][(/\ calls' = calls + 1
        /\ last'.op \in ExecutionCalls
        /\ currentClauseDepth # 0
        /\ queryOperation = <<>>)
       => /\ last'.panic # "" \/ last'.err # ""
          /\ transportCalls' = 0
          /\ queryOperation' = <<>>
          /\ queryOperationsCreated' = 0]_vars

\* C17: when the transport reports an error to an execution request, the
\* request returns exactly that error, and the transport is invoked once by
\* that request, not a second time.
C17_TransportErrorReturnedAsIs ==
    [][(/\ calls' = calls + 1
        /\ last'.op \in ExecutionCalls
        /\ transportCalls' # transportCalls
        /\ last'.transport # "")
       => /\ last'.panic = ""
          /\ last'.err = last'.transport
          /\ last'.err \in TransportErrors
          /\ transportCalls' = transportCalls + 1]_vars

\* Single was answered with a timeout
C17_Witness ==
    /\ Returned("Single")
    /\ last.transport = "timeout"
    /\ last.err = "timeout"
    /\ transportCalls = 1

\* the error a wrong number of results is reported with
ResultShapeError == "IllegalStateError"

\* C19: First returns the error of a wrong result shape when the query has no
\* results and the first result otherwise; Single returns that error when the
\* query has no result or more than one and the only result otherwise; the
\* error is none of the errors of the transport, and an error of the transport
\* is returned as it is.
C19_FirstAndSingleResultShape ==
    [][(/\ Calls("First") \/ Calls("Single")
        /\ queryOperation' # <<>>)
       => LET results == queryOperation'[1].results
              wrong == IF last'.op = "First" THEN Len(results) = 0
                       ELSE Len(results) # 1
          IN /\ ResultShapeError \notin TransportErrors
             /\ IF transportCalls' # transportCalls /\ last'.transport # ""
                THEN last'.err = last'.transport
                ELSE IF wrong
                THEN last'.err = ResultShapeError /\ last'.ret = <<>>
                ELSE last'.err = "" /\ last'.ret = <<results[1]>>]_vars

\* Single got two results
C19_Witness ==
    /\ Returned("Single")
    /\ queryOperation # <<>>
    /\ queryOperation[1].results = <<"users/1", "users/2">>
    /\ last.err = ResultShapeError
    /\ last.ret = <<>>

\* the compiled query of the builder: the fields of the index query of its
\* operation, with the parameter map the index query refers to
CompiledQuery ==
    IF queryOperation = <<>> THEN <<>>
    ELSE LET indexQuery == queryOperation[1].indexQuery
         IN <<[indexQuery EXCEPT
                   !.queryParameters = indexQueryParameters(Q, indexQuery)]>>

\* C20: once the query operation of a builder exists, no later call of a
\* mutator (skip, take, a new predicate that binds a parameter, noCaching,
\* waitForNonStaleResults) changes a field of the compiled query: its text,
\* start, page size, wait flag and timeout, parameter map and caching flag.
C20_CompiledQueryFrozen ==
    [][queryOperation # <<>> => CompiledQuery' = CompiledQuery]_vars

Predicates(tokens) == SelectSeq(tokens, LAMBDA t : t.kind = "where" \/ t.kind = "true")

\* the predicate mutators that apply a pending negation as a Negate marker
MarkerPredicates == {"whereExists", "whereTrue", "whereLucene", "whereIn"}

\* C22: when the where list is a predicate followed by an explicit AND and a
\* negation is pending (predicate, andAlso(), NegateNext()), the next
\* predicate leaves exactly [predicate, AND, Negate, predicate]: no second
\* operator is inserted, no exists/true guard is synthesized and the Negate
\* marker sits immediately before the second predicate.
C22_ExplicitOperatorThenNegated ==
    [][(/\ \E op \in MarkerPredicates : Calls(op)
        /\ ~isInMoreLikeThis
        /\ negate
        /\ Len(whereTokens) = 2
        /\ Len(Predicates(whereTokens)) = 1 /\ Predicates(whereTokens)[1] = whereTokens[1]
        /\ whereTokens[2] = queryOperatorTokenAnd)
       => /\ Len(whereTokens') = 4
          /\ SubSeq(whereTokens', 1, 2) = whereTokens
          /\ whereTokens'[3] = negateTokenInstance
          /\ Predicates(whereTokens') = <<whereTokens[1], whereTokens'[4]>>
          /\ ~negate']_vars

\* the mutators that add a predicate to the current where list
PredicateMutators ==
    {"whereExists", "whereTrue", "whereLucene", "whereIn", "whereBetween", "search",
     "whereEquals", "whereNotEquals"}

\* the number of Negate markers among tokens
Negations(tokens) == Len(SelectSeq(tokens, LAMBDA t : t.kind = "negate"))

\* C23: a predicate mutator P that is called while a negation is pending
\* consumes it exactly once: the flag is cleared when P returns, and the
\* negation is applied exactly once, for whereEquals and whereNotEquals by the
\* opposite operator without a marker, for every other P by a single Negate
\* marker immediately before the token of P.
C23_PendingNegationConsumedOnce ==
    [][(/\ \E op \in PredicateMutators : Calls(op)
        /\ negate)
       => LET before == CurrentWhereTokens
              after == CurrentWhereTokens'
              n == Len(after)
          IN /\ ~negate'
             /\ n > 0
             /\ after[n].kind \in {"where", "true"}
             /\ IF last'.op \in {"whereEquals", "whereNotEquals"}
                THEN /\ Negations(after) = Negations(before)
                     /\ after[n].whereOperator =
                            (IF last'.op = "whereEquals" THEN "notEquals" ELSE "equals")
                ELSE /\ Negations(after) = Negations(before) + 1
                     /\ n > 1
                     /\ after[n - 1] = negateTokenInstance]_vars

\* C24: when the last where token of the current list was created by search
\* and a predicate is added with no andAlso/orElse in between, the operator
\* inserted is OR whatever the default operator is; when an explicit operator
\* was supplied, nothing is inserted and the explicit operator stands.
C24_OrAfterSearch ==
    [][(/\ \E op \in PredicateMutators : Calls(op)
        /\ LastWhere(CurrentWhereTokens) # <<>>
        /\ LastWhere(CurrentWhereTokens)[1].whereOperator = "search")
       => LET before == CurrentWhereTokens
              after == CurrentWhereTokens'
              n == Len(before)
          IN /\ Len(after) > n
             /\ SubSeq(after, 1, n) = before
             /\ before[n].kind \in {"where", "close"}
                => Len(after) > n + 1 /\ after[n + 1] = queryOperatorTokenOr
             /\ before[n].kind = "operator" => after[n + 1].kind # "operator"]_vars

\* the mutators of the where clause that a moreLikeThis scope redirects
ScopedMutators ==
    PredicateMutators \cup {"andAlso", "orElse", "NegateNext", "openSubclause",
                            "boost", "fuzzy", "proximity"}

NoAdjacentOperators ==
    \A tokens \in AllWhereLists :
        \A i \in 1..(Len(tokens) - 1) :
            ~(tokens[i].kind = "operator" /\ tokens[i + 1].kind = "operator")

\* C26: andAlso() and orElse() fail with a construction error, leaving the
\* lists as they were, when the last token of the current where list is an
\* operator; they return without a change on an empty list and append their
\* operator otherwise; and no reachable where-token list holds two adjacent
\* operator tokens.
C26_NoDoubleOperator ==
    /\ []NoAdjacentOperators
    /\ [][\A op \in {"andAlso", "orElse"} :
             (calls' = calls + 1 /\ last'.op = op)
             => LET tokens == CurrentWhereTokens
                IN IF Len(tokens) = 0
                   THEN last'.panic = "" /\ whereTokens' = whereTokens
                   ELSE IF Last(tokens).kind = "operator"
                        THEN last'.panic # "" /\ whereTokens' = whereTokens
                        ELSE /\ last'.panic = ""
                             /\ CurrentWhereTokens' =
                                    Append(tokens, IF op = "andAlso"
                                                   THEN queryOperatorTokenAnd
                                                   ELSE queryOperatorTokenOr)]_vars

\* andAlso() was refused on a list that ends with an operator
C26_Witness ==
    /\ last.op = "andAlso"
    /\ last.panic # ""
    /\ Len(CurrentWhereTokens) >= 2
    /\ Last(CurrentWhereTokens).kind = "operator"

\* C27: the result of the command is handed to the query operation (setResult),
\* the query statistics are refreshed and the after-query listeners are invoked
\* only after a successful transport call; a step whose transport call returns
\* an error, and a step without a transport call, does none of the three.
C27_FoldOnlyAfterSuccess ==
    [][LET setResults(op) == IF op = <<>> THEN 0 ELSE op[1].setResultCalls
           sent == transportCalls' = transportCalls + 1 /\ last'.op \in ExecutionCalls
       IN IF sent /\ last'.transport = ""
          THEN /\ setResults(queryOperation') = 1
               /\ queryStats' = <<Len(queryOperation'[1].results)>>
               /\ afterQueryExecuted' = Append(afterQueryExecuted, queryOperation'[1].results)
          ELSE /\ setResults(queryOperation') = setResults(queryOperation)
               /\ queryStats' = queryStats
               /\ afterQueryExecuted' = afterQueryExecuted]_vars

\* C28: the take(k) that First (k = 1), Single (k = 2) and Any on a distinct
\* query (k = 1) issue never enlarges the page size: after the call the page
\* size is k when none was set or the one set was larger than k, and the one
\* set, unchanged, when it was at most k.
C28_InternalTakeNeverEnlarges ==
    [][\A op \in {"First", "Single", "Any"} :
           (Calls(op) /\ (op = "Any" => isDistinct(Q)))
           => LET k == IF op = "Single" THEN 2 ELSE 1
              IN pageSize' = IF pageSize = <<>> \/ pageSize[1] > k
                             THEN <<k>> ELSE pageSize]_vars

\* Single() left a page size of 1 as it was
C28_Witness == Returned("Single") /\ last.prevOp = "take" /\ pageSize = <<1>>

\* C29: whereBetween decides both bound parameters from the nullness of start
\* alone: with a nil start it binds "*" and "NULL" whatever end is, with any
\* other start it binds the transformed start and the transformed end, a nil end
\* included; the from-parameter name is generated immediately before the
\* to-parameter name.
C29_BetweenKeyedOffStart ==
    [][Calls("whereBetween")
       => LET startValue == last'.value
              endValue == last'.name[1]
              n == Cardinality(DOMAIN queryParameters)
              from == <<"p">> \o Itoa(n)
              to == <<"p">> \o Itoa(n + 1)
              token == Last(CurrentWhereTokens')
          IN /\ token.whereOperator = "between"
             /\ token.options.fromParameterName = from
             /\ token.options.toParameterName = to
             /\ DOMAIN queryParameters' = DOMAIN queryParameters \cup {from, to}
             /\ \A p \in DOMAIN queryParameters : queryParameters'[p] = queryParameters[p]
             /\ queryParameters'[from] =
                    IF startValue = "nil" THEN "*" ELSE transformValueWithRange(startValue, TRUE)
             /\ queryParameters'[to] =
                    IF startValue = "nil" THEN "NULL" ELSE transformValueWithRange(endValue, TRUE)]_vars

\* whereBetween with a start and a nil end has bound the nil end
C29_Witness ==
    /\ Returned("whereBetween")
    /\ last.value = "v1"
    /\ last.name = <<"nil">>
    /\ queryParameters[Last(CurrentWhereTokens).options.toParameterName] = "nil"

\* the four scalar range comparisons and the sentinel each binds for an absent
\* value
RangeSentinel ==
    [op \in {"whereGreaterThan", "whereGreaterThanOrEqual", "whereLessThan",
             "whereLessThanOrEqual"} |->
        IF op \in {"whereGreaterThan", "whereGreaterThanOrEqual"} THEN "*" ELSE "NULL"]

\* the value the range comparison of this step has bound: the value of the
\* parameter its where token names
RangeBound == queryParameters'[Last(CurrentWhereTokens').parameterName]

\* C30: a scalar range comparison with a nil or empty-string value binds the
\* sentinel of its operator instead of the value, "*" for whereGreaterThan and
\* whereGreaterThanOrEqual, "NULL" for whereLessThan and whereLessThanOrEqual;
\* any other value binds its transformed value.
C30_RangeSentinels ==
    [][\A op \in DOMAIN RangeSentinel :
           Calls(op)
           => RangeBound = IF last'.value \in {"nil", ""} THEN RangeSentinel[op]
                           ELSE transformValueWithRange(last'.value, TRUE)]_vars

\* C30, amended: a scalar range comparison with a nil value binds the sentinel
\* of its operator, "*" for whereGreaterThan and whereGreaterThanOrEqual, "NULL"
\* for whereLessThan and whereLessThanOrEqual; any other value, the empty string
\* included, binds its transformed value, which for the empty string is the
\* empty string.
C30_RangeSentinelsForNil ==
    [][\A op \in DOMAIN RangeSentinel :
           Calls(op)
           => /\ Last(CurrentWhereTokens').kind = "where"
              /\ DOMAIN queryParameters' =
                     DOMAIN queryParameters \cup {Last(CurrentWhereTokens').parameterName}
              /\ RangeBound = IF last'.value = "nil" THEN RangeSentinel[op]
                              ELSE transformValueWithRange(last'.value, TRUE)
              /\ last'.value = "" => RangeBound = ""]_vars

\* whereLessThan with an empty string has bound the empty string
C30_Witness ==
    /\ Returned("whereLessThan")
    /\ last.value = ""
    /\ queryParameters[Last(CurrentWhereTokens).parameterName] = ""

\* the mutators that take a field name and store it in a where token
WhereFieldMutators ==
    {"whereExists", "whereLucene", "whereEquals", "whereNotEquals", "whereIn",
     "whereBetween", "search", "whereGreaterThan", "whereGreaterThanOrEqual",
     "whereLessThan", "whereLessThanOrEqual", "whereRegex"}

\* the field name the call of this step has stored in its token
StoredFieldName ==
    IF last'.op = "orderBy" THEN Last(orderByTokens').fieldName
    ELSE IF last'.op = "groupBy" THEN Last(groupByTokens').fieldName
    ELSE Last(CurrentWhereTokens').fieldName

\* C31: on a session-bound builder that is not a group-by query, every mutator
\* that takes a field name (the where mutators, search, orderBy and groupBy)
\* stores the document-id metadata field name when it is given the identity
\* property, and the field name it is given otherwise.
C31_IdentityFieldRemapped ==
    [][\A op \in WhereFieldMutators \cup {"orderBy", "groupBy"} :
           (Calls(op) /\ ~isGroupBy)
           => StoredFieldName = IF last'.field = documentConventionsIdentityPropertyName
                                THEN IndexingFieldNameDocumentID
                                ELSE last'.field]_vars

\* C32: after any sequence of select-affecting mutators (distinct, groupByKey,
\* groupBySum, groupByCount, updateFieldsToFetchToken, aggregateBy,
\* aggregateUsing, suggestUsing) the select-token list holds at most one distinct
\* marker, which is then at index 0 and rendered first in the select clause;
\* distinct() on a query that is distinct fails and leaves the list unchanged.
C32_DistinctUniqueAndFirst ==
    /\ [](\A i \in 1..Len(selectTokens) : selectTokens[i].kind = "distinct" => i = 1)
    /\ []((Returned("String") /\ queryRaw = "" /\ selectTokens # <<>>)
          => LET text == last.ret
             IN /\ Cardinality(Places(text, " select ")) = 1
                /\ \A i \in Places(text, " select ") :
                       (text[i + 1] = "distinct") = isDistinct(Q)
                /\ Cardinality(Places(text, "distinct")) = IF isDistinct(Q) THEN 1 ELSE 0)
    /\ [][(calls' = calls + 1 /\ last'.op = "distinct" /\ isDistinct(Q))
          => (last'.panic # "" /\ selectTokens' = selectTokens)]_vars

\* a distinct query with a second select token was rendered
C32_Witness ==
    /\ Returned("String")
    /\ queryRaw = ""
    /\ Len(selectTokens) = 2
    /\ selectTokens[1].kind = "distinct"
    /\ \E i \in 1..(Len(last.ret) - 1) : last.ret[i] = " select " /\ last.ret[i + 1] = "distinct"

\* C33: suggestUsing returns an error and leaves the select tokens and the
\* parameter map unchanged whenever the builder holds a where token, a select
\* token or an order-by token; it succeeds, appending exactly one suggest token,
\* only when the three lists are empty, and then does so for every suggestion
\* with a term or with terms.
C33_SuggestNeedsEmptyClauses ==
    [][(calls' = calls + 1 /\ last'.op = "suggestUsing")
       => LET suggestion == last'.name
          IN /\ last'.panic = ""
             /\ IF whereTokens # <<>> \/ selectTokens # <<>> \/ orderByTokens # <<>>
                THEN /\ last'.err # ""
                     /\ selectTokens' = selectTokens
                     /\ queryParameters' = queryParameters
                ELSE /\ (last'.err = "") =
                            (/\ suggestion # <<>>
                             /\ suggestion[1].type \in
                                    {"SuggestionWithTerm", "SuggestionWithTerms"})
                     /\ IF last'.err = ""
                        THEN selectTokens' = <<SelTok("suggest", suggestion[1].field)>>
                        ELSE /\ selectTokens' = selectTokens
                             /\ queryParameters' = queryParameters]_vars

\* a suggestion with a term was refused on a builder that holds a where token
C33_Witness ==
    /\ last.op = "suggestUsing"
    /\ last.name # <<>>
    /\ last.err = "IllegalStateError"
    /\ whereTokens # <<>>
    /\ selectTokens = <<>>

\* this step is a call of boost, fuzzy or proximity on a current where-token
\* list that is empty or does not end with a where token
OptionOnNonPredicate ==
    /\ calls' = calls + 1
    /\ last'.op \in {"boost", "fuzzy", "proximity"}
    /\ CurrentWhereTokens = <<>> \/ Last(CurrentWhereTokens).kind # "where"

\* C34: boost, fuzzy and proximity each fail with a construction error, for
\* every argument value, when the current where-token list is empty or its last
\* token is not a where token, and then leave the options of every token
\* unchanged.
C34_OptionsNeedPredicate ==
    [][OptionOnNonPredicate => (last'.panic # "" /\ whereTokens' = whereTokens)]_vars

\* the listeners of the caller a loop over the slice calls: the ones that are
\* not removed, in the order of their handles
RECURSIVE Registered(_, _)
Registered(callbacks, kind) ==
    IF Len(callbacks) = 0 THEN <<>>
    ELSE LET cb == Head(callbacks)
         IN (IF cb \in {"nil", StatsListener} THEN <<>>
             ELSE <<[kind |-> kind, listener |-> cb]>>)
            \o Registered(Tail(callbacks), kind)

\* a call of an add: the handle is the index of a new slot after all earlier
\* ones, the slot holds the listener, and the earlier slots are as they were
Added(op, callbacks, callbacksAfter) ==
    Calls(op) =>
        /\ last'.ret = <<Len(callbacks)>>
        /\ callbacksAfter = Append(callbacks, last'.value)

\* a call of a remove with a handle given out before: the slot of the handle
\* is the tombstone and every other slot is as it was
Removed(op, callbacks, callbacksAfter) ==
    Calls(op) =>
        callbacksAfter = [callbacks EXCEPT ![last'.n + 1] = "nil"]

\* C35: each add*Listener call returns an index distinct from all earlier
\* handles of that listener kind (the index of the slot it appends, and no
\* slot is ever dropped); removing a listener by its handle tombstones only
\* that slot and changes no other; each invocation calls exactly the
\* registered, not-removed listeners in registration order (the before-query
\* listeners when the index query is built, the after-query listeners after a
\* successful transport call, the after-stream listeners when invoked)
C35_ListenerHandlesStable ==
    [][/\ Added("addBeforeQueryExecutedListener", beforeQueryExecutedCallback,
                beforeQueryExecutedCallback')
       /\ Added("addAfterQueryExecutedListener", afterQueryExecutedCallback,
                afterQueryExecutedCallback')
       /\ Added("addAfterStreamExecutedListener", afterStreamExecutedCallback,
                afterStreamExecutedCallback')
       /\ Removed("removeBeforeQueryExecutedListener", beforeQueryExecutedCallback,
                  beforeQueryExecutedCallback')
       /\ Removed("removeAfterQueryExecutedListener", afterQueryExecutedCallback,
                  afterQueryExecutedCallback')
       /\ Removed("removeAfterStreamExecutedListener", afterStreamExecutedCallback,
                  afterStreamExecutedCallback')
       /\ Len(beforeQueryExecutedCallback') >= Len(beforeQueryExecutedCallback)
       /\ Len(afterQueryExecutedCallback') >= Len(afterQueryExecutedCallback)
       /\ Len(afterStreamExecutedCallback') >= Len(afterStreamExecutedCallback)
       /\ Calls("GetIndexQuery") =>
              invoked' = invoked \o Registered(beforeQueryExecutedCallback,
                                               "beforeQueryExecuted")
       /\ Calls("invokeAfterStreamExecuted") =>
              invoked' = invoked \o Registered(afterStreamExecutedCallback,
                                               "afterStreamExecuted")
       /\ (Calls("GetQueryResult") /\ transportCalls' = transportCalls + 1) =>
              /\ invoked' = invoked
                     \o Registered(beforeQueryExecutedCallback, "beforeQueryExecuted")
                     \o (IF last'.transport = ""
                         THEN Registered(afterQueryExecutedCallback, "afterQueryExecuted")
                         ELSE <<>>)
              /\ (last'.transport = "" /\ afterQueryExecutedCallback[1] = "nil")
                     => queryStats' = queryStats
              /\ (last'.transport = "" /\ afterQueryExecutedCallback[1] = StatsListener)
                     => queryStats' # <<>>
      ]_vars

\* a listener was removed by its handle and the one registered after it was
\* called by an execution
C35_Witness ==
    /\ Returned("GetQueryResult")
    /\ afterQueryExecutedCallback = <<StatsListener, "nil", "g">>
    /\ invoked = <<[kind |-> "afterQueryExecuted", listener |-> "g"]>>

IsPrefix(tokens, longer) ==
    Len(tokens) <= Len(longer) /\ SubSeq(longer, 1, Len(tokens)) = tokens

\* what a call of the predicate mutator op leaves of its target list before
\* and of the tokens it inserts on the way, with a negation pending or not
AppendsOnly(op, before, after, pending) ==
    LET n == Len(before)
    IN /\ IsPrefix(before, after)
       /\ Len(after) > n
       /\ (n > 0 /\ before[n].kind \in {"where", "close"})
              => after[n + 1].kind = "operator"
       /\ (pending /\ op \in MarkerPredicates)
              => \E i \in (n + 1)..Len(after) : after[i].kind = "negate"
       /\ (pending /\ op \in MarkerPredicates /\ (n = 0 \/ before[n].kind = "open"))
              => /\ Len(after) >= n + 4
                 /\ after[n + 1].kind \in {"where", "true"}
                 /\ after[n + 2].kind = "operator"

\* C37: every predicate mutator only appends to its target where-token list:
\* the list before the call is a prefix of the list after the call, and the
\* operator, the Negate marker and the guard tokens inserted during the call
\* are in the list after it
C37_PredicatesOnlyAppend ==
    [][\A op \in PredicateMutators :
           Calls(op) => AppendsOnly(op, CurrentWhereTokens, CurrentWhereTokens', negate)]_vars

\* this step is a call that is rejected because raw query text is set
RejectedForRawQuery ==
    /\ calls' = calls + 1
    /\ queryRaw # ""
    /\ last'.panic = "RawQuery was called, cannot modify this query"

\* C38: a structured mutator that is rejected because raw query text is set
\* leaves the builder as it was before the call: the token lists, the
\* parameter map, the subclause depth counter, the pending-negation flag and
\* the caching flag are all unchanged
C38_RawRejectionChangesNothing ==
    [][RejectedForRawQuery =>
           UNCHANGED <<declareToken, fromToken, loadTokens, selectTokens, whereTokens,
                       groupByTokens, orderByTokens, queryParameters,
                       currentClauseDepth, negate, disableCaching>>]_vars

\* in every prefix of tokens there are at most as many close-subclause markers
\* as open-subclause markers
ProperlyNested(tokens) ==
    \A k \in 1..Len(tokens) :
        CountKind(SubSeq(tokens, 1, k), "close") <= CountKind(SubSeq(tokens, 1, k), "open")

\* C39: String() succeeds only for where-token lists whose subclause markers
\* are properly nested: in every prefix of the list the number of
\* close-subclause markers never exceeds the number of open-subclause markers
C39_RenderedListsAreNested ==
    [][Calls("String") => \A tokens \in AllWhereLists : ProperlyNested(tokens)]_vars

\* the execution requests that report the outcome of the execution themselves
SyncExecutionCalls == ExecutionCalls \ {"Lazily", "CountLazily"}

\* C40: if the first execution of a builder fails, every later execution
\* request on the same builder also returns an error: no execution request
\* reports success unless a transport call for that builder has succeeded
\* (the after-query listeners are handed a result after every transport call
\* that succeeds, and only then)
C40_NoSuccessWithoutTransport ==
    [][((\E op \in SyncExecutionCalls : Calls(op)) /\ last'.err = "")
           => afterQueryExecuted' # <<>>]_vars

====
